---- MODULE Spec2Model ----
(***************************************************************************)
(* Verification model of the scheduler's optimisation engine:              *)
(*   - BacktrackingManager (backtracking_manager.py): checkpoints,         *)
(*     dead-end detection, rollback;                                       *)
(*   - IterativeOptimizer (iterative_optimizer.py): tolerance-driven       *)
(*     redistribution of shifts;                                           *)
(*   - SchedulerCore (scheduler_core.py): the initial distribution         *)
(*     attempts, the improvement loop and the finalization phase;          *)
(*   - BalanceValidator (balance_validator.py): deviation tiers and the    *)
(*     validity of a one-shift transfer.                                   *)
(* Python objects that the code shares by reference (dicts that are        *)
(* assigned without being copied) live in `heap`; a variable or a          *)
(* checkpoint field holding such an object holds its index in `heap`.      *)
(***************************************************************************)
EXTENDS Integers, Sequences, FiniteSets, TLC

\* ------------------------------------------------------------------ bounds
MaxMutations == 2      \* scheduler assignments/removals explored per run
MaxCreated == 3        \* create_checkpoint calls explored per run
MaxRollbacks == 1      \* rollback_to_checkpoint calls explored per run
MaxCheckpointLimit == 2 \* largest max_checkpoints given to the constructor
MaxScore == 1          \* scores are drawn from 0..MaxScore
MaxImbalance == 0      \* workload imbalances are drawn from 0..MaxImbalance
MaxNoImprove == 6      \* cap of iterations_without_improvement
MaxTolViol == 1        \* tolerance_violations are drawn from 0..MaxTolViol
MaxIterations == 4     \* largest max_iterations given to IterativeOptimizer
MaxLoopsArgument == 2  \* small max_improvement_loops arguments are 1..MaxLoopsArgument
MaxBalanceTarget == 12 \* target_shifts are drawn from 0..MaxBalanceTarget, 20 and 25
MaxCountDistance == 3  \* a worker's shifts are at most this far from its target
ScoreScale == 20       \* checkpoint scores of a checkpoint decision are -ScoreScale, 0, ScoreScale
MaxRngState == 5       \* initial states of the process-wide random generator are 0..MaxRngState

\* ------------------------------------------------------------ configuration
None == "None"

\* Worker ids as they appear in workers_data and in the cell grid.  Ids made
\* of digits ("1") and other ids ("A") are both used by the repository.
Workers == {"A", "B", "1"}

\* Dates are day offsets from a Saturday (weekday 5): 0 = Sat, 1 = Sun,
\* 6 = Fri, 7 = the next Sat.  The other days of the period have no posts.
Dates == {0, 1, 6, 7}

Weekday(d) == (d + 5) % 7

IsWeekend(d) == Weekday(d) \in {5, 6}

\* Number of posts of each date (variable_shifts falling through to num_shifts).
PostsOn(d) == IF d = 7 THEN 2 ELSE 1

gap_between_shifts == 2

Cells == {<<d, p>> \in Dates \X (1..2) : p <= PostsOn(d)}

Scores == 0..MaxScore

\* ------------------------------------------------------------------- state
VARIABLES
    heap,                  \* Python dict objects shared by reference
    schedule,              \* scheduler.schedule: date -> sequence of cells
    worker_assignments,    \* worker -> set of dates
    worker_shift_counts,   \* reference into heap: worker -> count
    worker_weekend_counts, \* reference into heap: worker -> count
    worker_posts,          \* worker -> set of post indices
    worker_post_counts,    \* worker -> post -> count
    worker_weekdays,       \* worker -> weekday -> count
    worker_weekends,       \* worker -> sequence of weekend dates
    last_assignment_date,  \* reference into heap: worker -> date or None
    consecutive_shifts,    \* reference into heap: worker -> count
    max_checkpoints,       \* BacktrackingManager.max_checkpoints
    checkpoints,           \* BacktrackingManager.checkpoints
    checkpoint_counter,    \* BacktrackingManager.checkpoint_counter
    dead_end_indicators,   \* BacktrackingManager.dead_end_indicators
    last_score,            \* BacktrackingManager.last_score
    iterations_without_improvement,
    rollback_history,      \* ids of the checkpoints rolled back to
    dead_end_result,       \* what the last detect_dead_end call returned
    last_op,               \* the operation that ran last
    at_creation,           \* checkpoint id -> the state when it was created (record kept for checking)
    restored,              \* id of the checkpoint the last rollback restored
    auto_recovery_result,  \* what the last auto_recovery call returned and was given
    should_create_result,  \* what the last should_create_checkpoint call returned and was given
    core_pc,               \* SchedulerCore: where orchestrate_schedule_generation is
    mandatory_state,       \* the ScheduleState at the end of the mandatory phase (record kept for checking)
    mandatory_backup,      \* the mandatory_* locals of the initial attempts
    attempt_num,           \* loop variable of the initial attempts
    best_attempt,          \* local best_attempt (0 is None)
    best_score,            \* local best_score
    best_saved,            \* the best_* locals: <<>> while unbound
    attempts_results,      \* local attempts_results, with the state each attempt left
    attempts_returned,     \* what _multiple_initial_distribution_attempts returned
    rng_state,             \* state of the process-wide random generator
    workers_list,          \* worker order handed to the attempt's fill
    loops_argument,        \* the max_improvement_loops a caller passed
    max_improvement_loops, \* the local of _iterative_improvement_phase
    improvement_loop_count,
    overall_improvement_made,
    strict_iterations,     \* passes of the strict-balance loop made so far
    no_change_streak,      \* consecutive passes without a change (record kept for checking)
    tolerance_violations_found, \* total_violations of _apply_tolerance_optimization; -1 before it is computed
    best_schedule_data,    \* the schedule builder's best schedule: <<>> while none
    orchestrate_result,    \* outcome of orchestrate_schedule_generation: "none", "True", "SchedulerError"
    mutations,             \* scheduler mutations performed so far
    max_iterations,        \* IterativeOptimizer.max_iterations
    stagnation_counter,    \* IterativeOptimizer.stagnation_counter
    optimization_history,  \* total_violations of each history entry
    best_result,           \* IterativeOptimizer.best_result
    opt_pc,                \* optimize_schedule: "idle", "running", "returned"
    opt_input,             \* arguments of the optimize_schedule call
    iteration,             \* loop variable of optimize_schedule
    current_schedule,      \* local of optimize_schedule
    best_schedule,         \* local of optimize_schedule
    best_violations,       \* local of optimize_schedule
    result,                \* the OptimizationResult returned
    validated_schedules,   \* the schedules validated during the call (record kept for checking)
    call_counts,           \* total_violations of each iteration of the call (record kept for checking)
    validator_schedule,    \* validator.schedule: "scheduler.schedule" or "current_schedule"
    validator_raised,      \* whether the validator raised in the last validation (record kept for checking)
    caller_schedule,       \* the schedule object of the caller of optimize_schedule
    calls,                 \* optimize_schedule calls made on the instance
    first_call,            \* what the first call did (record kept for checking)
    balance_pc,            \* BalanceValidator: "idle", "validated", "checked"
    balance_assigned,      \* worker -> the cells of the validator's schedule that hold it
    balance_targets,       \* worker -> target_shifts of workers_data
    balance_report,        \* what validate_schedule_balance returned
    transfer_check         \* the arguments and the result of check_transfer_validity

schedVars == <<heap, schedule, worker_assignments, worker_shift_counts,
               worker_weekend_counts, worker_posts, worker_post_counts,
               worker_weekdays, worker_weekends, last_assignment_date,
               consecutive_shifts, mutations>>

btVars == <<max_checkpoints, checkpoints, checkpoint_counter,
            dead_end_indicators, last_score, iterations_without_improvement,
            rollback_history, dead_end_result, at_creation, restored,
            should_create_result>>

optVars == <<max_iterations, stagnation_counter, optimization_history,
             best_result, opt_pc, opt_input, iteration, current_schedule,
             best_schedule, best_violations, result, validated_schedules,
             call_counts, validator_schedule, validator_raised,
             caller_schedule, calls, first_call>>

attemptVars == <<mandatory_state, mandatory_backup, attempt_num, best_attempt,
                 best_score, best_saved, attempts_results, attempts_returned,
                 rng_state, workers_list>>

improvementVars == <<loops_argument, max_improvement_loops,
                     improvement_loop_count, overall_improvement_made>>

finalVars == <<strict_iterations, no_change_streak, tolerance_violations_found,
               best_schedule_data, orchestrate_result>>

coreVars == <<core_pc, attemptVars, improvementVars, finalVars>>

balanceVars == <<balance_pc, balance_assigned, balance_targets, balance_report,
                 transfer_check>>

vars == <<schedVars, btVars, optVars, coreVars, balanceVars,
          auto_recovery_result, last_op>>

\* -------------------------------------------------------------- scheduler
NegInf == -1000000

\* The ScheduleState structures after SchedulerCore._initialize_schedule_phase.
EmptySchedule == [d \in Dates |-> [p \in 1..PostsOn(d) |-> None]]

ZeroCounts == [w \in Workers |-> 0]

\* last_assignment_date: None is <<>>, a date d is <<d>>.
NoDates == [w \in Workers |-> <<>>]

\* Number of cells of grid g holding worker w.
CellsHolding(g, w) == Cardinality({c \in Cells : g[c[1]][c[2]] = w})

\* metrics.count_empty_shifts(): the cells holding no worker.
count_empty_shifts(g) == Cardinality({c \in Cells : g[c[1]][c[2]] = None})

WorkersOn(g, d) == {g[d][p] : p \in 1..PostsOn(d)} \ {None}

\* Largest element of a non-empty set of integers.
MaxOf(S) == CHOOSE x \in S : \A y \in S : y <= x

\* In-place assignment of worker w to cell (d, p) by the schedule builder:
\* the grid and every derived structure are updated in the objects the
\* scheduler currently holds.  The guard is the constraint evaluator's cell
\* availability, worker-day uniqueness and (emergency-relaxed) gap rule.
Assign(w, d, p) ==
    /\ mutations < MaxMutations
    /\ schedule[d][p] = None
    /\ w \notin WorkersOn(schedule, d)
    /\ \A e \in worker_assignments[w] :
           (IF e > d THEN e - d ELSE d - e) >= gap_between_shifts - 1
    /\ schedule' = [schedule EXCEPT ![d][p] = w]
    /\ worker_assignments' = [worker_assignments EXCEPT ![w] = @ \cup {d}]
    /\ worker_posts' = [worker_posts EXCEPT ![w] = @ \cup {p}]
    /\ worker_post_counts' = [worker_post_counts EXCEPT ![w][p] = @ + 1]
    /\ worker_weekdays' = [worker_weekdays EXCEPT ![w][Weekday(d)] = @ + 1]
    /\ worker_weekends' = [worker_weekends EXCEPT
                              ![w] = IF IsWeekend(d) THEN Append(@, d) ELSE @]
    /\ heap' = [heap EXCEPT
                   ![worker_shift_counts][w] = @ + 1,
                   ![worker_weekend_counts][w] =
                        IF IsWeekend(d) THEN @ + 1 ELSE @,
                   ![last_assignment_date][w] = <<d>>,
                   ![consecutive_shifts][w] =
                        IF heap[last_assignment_date][w] = <<d - 1>>
                        THEN @ + 1 ELSE 1]
    /\ mutations' = mutations + 1
    /\ last_op' = "assign"
    /\ UNCHANGED <<worker_shift_counts, worker_weekend_counts,
                   last_assignment_date, consecutive_shifts, btVars,
                   optVars, balanceVars, coreVars, auto_recovery_result>>

\* Remove element x from sequence s (first occurrence).
RECURSIVE SeqRemove(_, _)
SeqRemove(s, x) ==
    IF s = <<>> THEN <<>>
    ELSE IF Head(s) = x THEN Tail(s)
    ELSE <<Head(s)>> \o SeqRemove(Tail(s), x)

\* In-place removal of the worker in cell (d, p) by the schedule builder.
Remove(d, p) ==
    /\ mutations < MaxMutations
    /\ schedule[d][p] \in Workers
    /\ LET w == schedule[d][p]
           left == worker_assignments[w] \ {d}
       IN  /\ schedule' = [schedule EXCEPT ![d][p] = None]
           /\ worker_assignments' = [worker_assignments EXCEPT ![w] = left]
           /\ worker_post_counts' = [worker_post_counts EXCEPT ![w][p] = @ - 1]
           /\ worker_posts' = [worker_posts EXCEPT
                  ![w] = IF worker_post_counts[w][p] = 1 THEN @ \ {p} ELSE @]
           /\ worker_weekdays' = [worker_weekdays EXCEPT
                                     ![w][Weekday(d)] = @ - 1]
           /\ worker_weekends' = [worker_weekends EXCEPT
                                     ![w] = SeqRemove(@, d)]
           /\ heap' = [heap EXCEPT
                  ![worker_shift_counts][w] = @ - 1,
                  ![worker_weekend_counts][w] =
                       IF IsWeekend(d) THEN @ - 1 ELSE @,
                  ![last_assignment_date][w] =
                       IF left = {} THEN <<>> ELSE <<MaxOf(left)>>,
                  ![consecutive_shifts][w] = 0]
    /\ mutations' = mutations + 1
    /\ last_op' = "remove"
    /\ UNCHANGED <<worker_shift_counts, worker_weekend_counts,
                   last_assignment_date, consecutive_shifts, btVars,
                   optVars, balanceVars, coreVars, auto_recovery_result>>

\* ---------------------------------------------------- BacktrackingManager
\* The value of the ScheduleState structures, references followed.
StateValue ==
    [schedule |-> schedule,
     worker_assignments |-> worker_assignments,
     worker_shift_counts |-> heap[worker_shift_counts],
     worker_weekend_counts |-> heap[worker_weekend_counts],
     worker_posts |-> worker_posts,
     worker_post_counts |-> worker_post_counts,
     worker_weekdays |-> worker_weekdays,
     worker_weekends |-> worker_weekends,
     last_assignment_date |-> heap[last_assignment_date],
     consecutive_shifts |-> heap[consecutive_shifts]]

\* _count_violations: per worker, the pairs of consecutive assignment dates
\* (in sorted order) that are less than gap_between_shifts days apart.
count_violations(assignments) ==
    Cardinality({x \in Workers \X Dates \X Dates :
        /\ x[2] \in assignments[x[1]] /\ x[3] \in assignments[x[1]]
        /\ x[2] < x[3]
        /\ ~ \E m \in assignments[x[1]] : x[2] < m /\ m < x[3]
        /\ x[3] - x[2] < gap_between_shifts})

\* ScheduleCheckpoint(...) followed by __post_init__: schedule,
\* worker_assignments, worker_posts, worker_post_counts, worker_weekdays and
\* worker_weekends are copied; worker_shift_counts, worker_weekend_counts,
\* last_assignment_date and consecutive_shifts stay the scheduler's objects.
ScheduleCheckpoint(id, score, imbalance) ==
    [checkpoint_id |-> id,
     schedule |-> schedule,
     worker_assignments |-> worker_assignments,
     worker_shift_counts |-> worker_shift_counts,
     worker_weekend_counts |-> worker_weekend_counts,
     worker_posts |-> worker_posts,
     worker_post_counts |-> worker_post_counts,
     last_assignment_date |-> last_assignment_date,
     consecutive_shifts |-> consecutive_shifts,
     worker_weekdays |-> worker_weekdays,
     worker_weekends |-> worker_weekends,
     score |-> score,
     empty_shifts |-> count_empty_shifts(schedule),
     workload_imbalance |-> imbalance,
     constraint_violations |-> count_violations(worker_assignments)]

\* Python's s[-k:] for k >= 0: the last k elements, and the whole list when
\* k = 0 (s[-0:] is s[0:]) or k exceeds the length.
LastSlice(s, k) ==
    IF k = 0 \/ k >= Len(s) THEN s ELSE SubSeq(s, Len(s) - k + 1, Len(s))

\* The list kept once it is longer than max_checkpoints.
LimitCheckpoints(cps, limit) ==
    IF Len(cps) > limit
    THEN <<cps[1]>> \o LastSlice(cps, limit - 1)
    ELSE cps

\* create_checkpoint: score and workload imbalance come from
\* OptimizationMetrics.
CreateCheckpoint(score, imbalance) ==
    /\ checkpoint_counter < MaxCreated
    /\ checkpoint_counter' = checkpoint_counter + 1
    /\ checkpoints' = LimitCheckpoints(
           Append(checkpoints,
                  ScheduleCheckpoint(checkpoint_counter + 1, score, imbalance)),
           max_checkpoints)
    /\ at_creation' = Append(at_creation, StateValue)
    /\ last_op' = "create_checkpoint"
    /\ UNCHANGED <<schedVars, max_checkpoints, dead_end_indicators, last_score,
                   iterations_without_improvement, rollback_history,
                   dead_end_result, restored, optVars, balanceVars, coreVars,
                   auto_recovery_result,
                   should_create_result>>

\* DeadEndIndicators(): the dataclass defaults.
DeadEndIndicators ==
    [stagnation_iterations |-> 0,
     no_improvement_cycles |-> 0,
     constraint_violations |-> 0,
     empty_shifts_stuck |-> 0,
     severe_imbalance |-> FALSE,
     impossible_assignments |-> 0]

\* rollback_to_checkpoint(checkpoint): every structure is replaced by a copy
\* of the checkpoint's field.
RollbackToCheckpoint(cp) ==
    /\ Len(rollback_history) < MaxRollbacks
    /\ schedule' = cp.schedule
    /\ worker_assignments' = cp.worker_assignments
    /\ worker_posts' = cp.worker_posts
    /\ worker_post_counts' = cp.worker_post_counts
    /\ worker_weekdays' = cp.worker_weekdays
    /\ worker_weekends' = cp.worker_weekends
    /\ heap' = heap \o <<heap[cp.worker_shift_counts],
                         heap[cp.worker_weekend_counts],
                         heap[cp.last_assignment_date],
                         heap[cp.consecutive_shifts]>>
    /\ worker_shift_counts' = Len(heap) + 1
    /\ worker_weekend_counts' = Len(heap) + 2
    /\ last_assignment_date' = Len(heap) + 3
    /\ consecutive_shifts' = Len(heap) + 4
    /\ dead_end_indicators' = DeadEndIndicators
    /\ iterations_without_improvement' = 0
    /\ last_score' = cp.score
    /\ rollback_history' = Append(rollback_history, cp.checkpoint_id)
    /\ restored' = cp.checkpoint_id
    /\ last_op' = "rollback"
    /\ UNCHANGED <<mutations, max_checkpoints, checkpoints, checkpoint_counter,
                   at_creation, optVars, balanceVars, coreVars,
                   should_create_result>>

\* dead_end_thresholds of BacktrackingManager.__init__.
ThresholdStagnation == 10
ThresholdNoImprovement == 15
ThresholdViolations == 5
ThresholdImpossible == 3
SevereNoImprovement == 5
PersistentIterations == 3

\* DeadEndIndicators.is_dead_end
is_dead_end(ind) ==
    \/ ind.stagnation_iterations >= ThresholdStagnation
    \/ ind.no_improvement_cycles >= ThresholdNoImprovement
    \/ ind.constraint_violations >= ThresholdViolations
    \/ (ind.severe_imbalance /\ ind.no_improvement_cycles >= SevereNoImprovement)
    \/ ind.impossible_assignments >= ThresholdImpossible

\* The counter of calls without improvement after one more call.
NoImprovementAfter(current_score) ==
    IF current_score <= last_score
    THEN iterations_without_improvement + 1
    ELSE 0

\* The indicators detect_dead_end evaluates.  metrics_severe is the outcome
\* of workload_imbalance > 4.0 or weekend_imbalance > 3.0 on the metrics.
IndicatorsAfter(current_score, empty_shifts, tolerance_violations, metrics_severe) ==
    [dead_end_indicators EXCEPT
        !.no_improvement_cycles = NoImprovementAfter(current_score),
        !.constraint_violations = count_violations(worker_assignments),
        !.empty_shifts_stuck = empty_shifts,
        !.severe_imbalance =
            \/ metrics_severe
            \/ (tolerance_violations > 0
                /\ NoImprovementAfter(current_score) >= PersistentIterations)]

\* detect_dead_end(current_score, empty_shifts, tolerance_violations)
DetectDeadEnd(current_score, tolerance_violations, metrics_severe) ==
    /\ iterations_without_improvement < MaxNoImprove
    /\ iterations_without_improvement' = NoImprovementAfter(current_score)
    /\ last_score' = IF current_score <= last_score
                     THEN last_score ELSE current_score
    /\ dead_end_indicators' =
           IndicatorsAfter(current_score, count_empty_shifts(schedule),
                           tolerance_violations, metrics_severe)
    /\ dead_end_result' =
           [returned |-> is_dead_end(dead_end_indicators'),
            tolerance_violations |-> tolerance_violations]
    /\ last_op' = "detect_dead_end"
    /\ UNCHANGED <<schedVars, max_checkpoints, checkpoints, checkpoint_counter,
                   rollback_history, at_creation, restored, optVars, balanceVars,
                   coreVars,
                   should_create_result>>

\* rollback_score of find_best_rollback_point for the i-th checkpoint, in
\* tenths: the score, minus 0.1 per position counted from the end of the list,
\* minus 100 per violation, 10 per empty shift and 50 per unit of imbalance.
rollback_score(cps, i) ==
    10 * cps[i].score - (Len(cps) - (i - 1))
        - 1000 * cps[i].constraint_violations
        - 100 * cps[i].empty_shifts
        - 500 * cps[i].workload_imbalance

\* find_best_rollback_point on a non-empty list: the first checkpoint of the
\* list sorted (stably) by descending rollback_score.
find_best_rollback_point(cps) ==
    cps[CHOOSE i \in 1..Len(cps) : \A j \in 1..Len(cps) :
            /\ rollback_score(cps, j) <= rollback_score(cps, i)
            /\ j < i => rollback_score(cps, j) < rollback_score(cps, i)]

\* auto_recovery(metrics, tolerance_violations): current_score and the
\* imbalance verdict come from OptimizationMetrics.  detect_dead_end runs
\* first; when it reports a dead-end and a checkpoint is stored, the best
\* rollback point is restored, which resets what detect_dead_end has updated.
AutoRecovery(current_score, tolerance_violations, metrics_severe) ==
    LET ind == IndicatorsAfter(current_score, count_empty_shifts(schedule),
                               tolerance_violations, metrics_severe)
    IN  IF is_dead_end(ind) /\ checkpoints # <<>>
        THEN /\ iterations_without_improvement < MaxNoImprove
             /\ RollbackToCheckpoint(find_best_rollback_point(checkpoints))
             /\ dead_end_result' =
                    [returned |-> TRUE,
                     tolerance_violations |-> tolerance_violations]
             /\ auto_recovery_result' =
                    [returned |-> TRUE, current_score |-> current_score]
        ELSE /\ DetectDeadEnd(current_score, tolerance_violations,
                              metrics_severe)
             /\ auto_recovery_result' =
                    [returned |-> FALSE, current_score |-> current_score]

\* The phases should_create_checkpoint may be given.
Phases == {"mandatory", "improvement", "finalization", "initial_fill"}

\* The iterations should_create_checkpoint may be given.
DecisionIterations == {0, 7, 10, 20}

\* The scores OptimizationMetrics may report when a checkpoint decision is
\* made, and the scores of the checkpoints made before it.
CheckpointScores == {-ScoreScale, 0, ScoreScale}

CurrentScores == {-ScoreScale - 1, -ScoreScale, 0, 1, ScoreScale + 1, ScoreScale + 2}

\* current_score > last_checkpoint.score * 1.05
ExceedsLastScore(current_score, last_checkpoint_score) ==
    100 * current_score > 105 * last_checkpoint_score

\* should_create_checkpoint(iteration, phase), with the score
\* OptimizationMetrics reports.
should_create_checkpoint(iter, phase, current_score) ==
    IF phase \in {"mandatory", "finalization"} THEN TRUE
    ELSE IF phase = "improvement"
    THEN \/ iter % 10 = 0
         \/ /\ Len(checkpoints) > 0
            /\ ExceedsLastScore(current_score, checkpoints[Len(checkpoints)].score)
    ELSE FALSE

ShouldCreateCheckpoint(iter, phase, current_score) ==
    /\ should_create_result' =
           [iteration |-> iter, phase |-> phase, current_score |-> current_score,
            returned |-> should_create_checkpoint(iter, phase, current_score)]
    /\ last_op' = "should_create_checkpoint"
    /\ UNCHANGED <<schedVars, max_checkpoints, checkpoints, checkpoint_counter,
                   dead_end_indicators, last_score,
                   iterations_without_improvement, rollback_history,
                   dead_end_result, at_creation, restored, optVars,
                   balanceVars, coreVars, auto_recovery_result>>

\* ------------------------------------------------------ IterativeOptimizer
Inf == 1000000

\* workers_data in list order, and the schedule's dates in key order.
WorkerOrder == <<"A", "B", "1">>

DateOrder == <<0, 1, 6, 7>>

\* Ids for which str(worker_id).isdigit() holds.
DigitIds == {"1"}

\* tolerance * 100 of IterativeOptimizer.__init__ (tolerance = 0.08).
TolerancePercent == 8

convergence_threshold == 3

\* Target shift counts a call may be given, per worker.
Targets == {1, 2}

\* Weekend targets the tolerance validator may hold, per worker.
WeekendTargets == {1}

\* A worker's availability is modelled by the weekdays for which
\* worker['availability'] lists shift types other than 'ALL'; a worker
\* without the key has none.
Availabilities == {[w \in Workers |-> {}],
                   [w \in Workers |-> IF w = "B" THEN {5} ELSE {}]}

\* worker['incompatible_with'] of workers_data.
incompatible_with == [w \in Workers |-> IF w = "B" THEN {"1"} ELSE {}]

\* worker['mandatory_days'] of workers_data.
mandatory_days == [w \in Workers |-> IF w = "A" THEN {7} ELSE {}]

Abs(x) == IF x < 0 THEN -x ELSE x

Min(a, b) == IF a < b THEN a ELSE b

Range(s) == {s[i] : i \in 1..Len(s)}

Reverse(s) == [i \in 1..Len(s) |-> s[Len(s) + 1 - i]]

\* The name the validation report gives a worker id:
\* f"Worker {worker_id}" if str(worker_id).isdigit() else str(worker_id).
WorkerName(id) == IF id \in DigitIds THEN "Worker " \o id ELSE id

\* The worker id _can_worker_take_shift extracts from a name: the text after
\* "Worker " when the name has that prefix, the name itself otherwise.
WorkerIdOf(name) ==
    IF \E id \in Workers : name = "Worker " \o id
    THEN CHOOSE id \in Workers : name = "Worker " \o id
    ELSE name

\* The grids a call may be given: every cell holds a worker id or None and
\* no worker holds two posts of one date.
InputSchedules ==
    {g \in [Dates -> UNION {[1..n -> Workers \cup {None}] : n \in 1..2}] :
        \A d \in Dates :
            /\ Len(g[d]) = PostsOn(d)
            /\ \A p, q \in 1..PostsOn(d) :
                   (p # q /\ g[d][p] # None) => g[d][p] # g[d][q]}

\* ShiftToleranceValidator: the cells of validator.schedule counted for a
\* worker id, as its id or as its report name.
AssignedShifts(sched, id, is_weekend_only) ==
    Cardinality({c \in Cells :
        /\ is_weekend_only => IsWeekend(c[1])
        /\ sched[c[1]][c[2]] \in {id, WorkerName(id)}})

OutsideTolerance(assigned, target) ==
    100 * Abs(assigned - target) > TolerancePercent * target

\* validator.get_workers_outside_tolerance(is_weekend_only)
get_workers_outside_tolerance(sched, targets, is_weekend_only) ==
    SelectSeq([i \in 1..Len(WorkerOrder) |->
                  [worker_id |-> WorkerOrder[i],
                   assigned_shifts |->
                       AssignedShifts(sched, WorkerOrder[i], is_weekend_only),
                   target_shifts |-> targets[WorkerOrder[i]]]],
              LAMBDA r : OutsideTolerance(r.assigned_shifts, r.target_shifts))

\* One list of violations of the validation report.  deviation_percentage is
\* (assigned - target) / target * 100, kept as the pair assigned, target.
Violations(outside) ==
    [i \in 1..Len(outside) |->
        [worker |-> WorkerName(outside[i].worker_id),
         assigned |-> outside[i].assigned_shifts,
         target |-> outside[i].target_shifts,
         shortage |-> IF outside[i].assigned_shifts < outside[i].target_shifts
                      THEN outside[i].target_shifts - outside[i].assigned_shifts
                      ELSE 0,
         excess |-> IF outside[i].assigned_shifts > outside[i].target_shifts
                    THEN outside[i].assigned_shifts - outside[i].target_shifts
                    ELSE 0]]

\* _create_validation_report
create_validation_report(sched, inp) ==
    [general_shift_violations |->
         Violations(get_workers_outside_tolerance(sched, inp.target_shifts, FALSE)),
     weekend_shift_violations |->
         Violations(get_workers_outside_tolerance(sched, inp.weekend_targets, TRUE))]

\* deviation < -tolerance * 100 and deviation > tolerance * 100
NeedsMore(v) == 100 * (v.assigned - v.target) < -TolerancePercent * v.target

HasExcess(v) == 100 * (v.assigned - v.target) > TolerancePercent * v.target

\* priority = abs(deviation) / 100.0, compared as fractions.
HigherPriority(a, b) ==
    Abs(a.assigned - a.target) * b.target > Abs(b.assigned - b.target) * a.target

\* list.sort(key = priority, reverse = True): stable, descending.
RECURSIVE InsertByPriority(_, _)
InsertByPriority(sorted, x) ==
    IF sorted = <<>> THEN <<x>>
    ELSE IF HigherPriority(x, Head(sorted)) THEN <<x>> \o sorted
    ELSE <<Head(sorted)>> \o InsertByPriority(Tail(sorted), x)

RECURSIVE SortByPriority(_)
SortByPriority(s) ==
    IF s = <<>> THEN <<>>
    ELSE InsertByPriority(SortByPriority(SubSeq(s, 1, Len(s) - 1)), s[Len(s)])

\* The cells of the dates ds, date by date and post by post.
RECURSIVE CellsOfDates(_)
CellsOfDates(ds) ==
    IF ds = <<>> THEN <<>>
    ELSE [p \in 1..PostsOn(Head(ds)) |-> <<Head(ds), p>>] \o CellsOfDates(Tail(ds))

\* worker_shifts of _redistribute_general_shifts, sorted by date, latest first.
worker_shifts(sched, name) ==
    SelectSeq(CellsOfDates(Reverse(DateOrder)),
              LAMBDA c : sched[c[1]][c[2]] = name)

weekend_dates == SelectSeq(DateOrder, IsWeekend)

\* weekend_shifts of _redistribute_weekend_shifts, in weekend_dates order.
weekend_shifts(sched, name) ==
    SelectSeq(CellsOfDates(weekend_dates), LAMBDA c : sched[c[1]][c[2]] = name)

\* _can_worker_take_shift: the worker is found in workers_data, its
\* availability admits the shift type (a "Post_i" type is in no list), and
\* its name is not in the date's list.
can_worker_take_shift(worker_name, date_key, sched, inp) ==
    /\ WorkerIdOf(worker_name) \in Workers
    /\ Weekday(date_key) \notin inp.unavailable[WorkerIdOf(worker_name)]
    /\ worker_name \notin Range(sched[date_key])

\* assignment_priority as a fraction <<numerator, denominator>>: the
\* priority, times 1.5 (general) or 2.0 (weekend) for a severe shortage, and
\* times 1.1 for a weekend shift on a Saturday.
assignment_priority(n, date_key, weekend) ==
    LET dev100 == 100 * (n.assigned - n.target)
        p == <<Abs(n.assigned - n.target), n.target>>
        q == IF weekend
             THEN IF dev100 < -25 * n.target THEN <<2 * p[1], p[2]>> ELSE p
             ELSE IF dev100 < -15 * n.target THEN <<3 * p[1], 2 * p[2]>> ELSE p
    IN  IF weekend /\ Weekday(date_key) = 5
        THEN <<11 * q[1], 10 * q[2]>>
        ELSE q

FractionGreater(a, b) == a[1] * b[2] > b[1] * a[2]

\* The index in need of best_recipient (0 for None): the first candidate of
\* the highest assignment_priority among those with shortage left that can
\* take the shift.
BestRecipient(sched, need, date_key, inp, weekend) ==
    LET E == {i \in 1..Len(need) :
                 /\ need[i].shortage > 0
                 /\ need[i].worker \notin Range(sched[date_key])
                 /\ can_worker_take_shift(need[i].worker, date_key, sched, inp)}
        pr(i) == assignment_priority(need[i], date_key, weekend)
    IN  IF E = {} THEN 0
        ELSE CHOOSE i \in E : \A j \in E :
                 /\ j < i => FractionGreater(pr(i), pr(j))
                 /\ j > i => ~ FractionGreater(pr(j), pr(i))

\* workers[workers.index(old)] = new
ReplaceFirst(row, old, new) ==
    LET idx == CHOOSE i \in 1..Len(row) :
                   row[i] = old /\ \A j \in 1..(i - 1) : row[j] # old
    IN  [row EXCEPT ![idx] = new]

\* The reassignment of one shift with the excess worker taken out of the
\* date's list and the recipient not put in.
ReassignDropping(st, excess_worker, date_key, b) ==
    [st EXCEPT
        !.schedule[date_key] = ReplaceFirst(@, excess_worker, None),
        !.need[b].shortage = @ - 1,
        !.removed = @ + 1,
        !.made = @ + 1]

\* The reassignment of one shift: the recipient's name replaces the excess
\* worker in the date's list and its shortage goes down by one.
Reassign(st, excess_worker, date_key, b) ==
    [st EXCEPT
        !.schedule[date_key] = ReplaceFirst(@, excess_worker, st.need[b].worker),
        !.need[b].shortage = @ - 1,
        !.removed = @ + 1,
        !.made = @ + 1]

\* The loop over worker_shifts of one excess worker (general shifts).
RECURSIVE GeneralShiftLoop(_, _, _, _, _)
GeneralShiftLoop(st, ex, shifts, j, inp) ==
    IF j > Len(shifts) \/ st.removed >= Min(ex.excess, 4) THEN st
    ELSE LET date_key == shifts[j][1]
             b == BestRecipient(st.schedule, st.need, date_key, inp, FALSE)
         IN  IF b = 0 \/ ex.worker \notin Range(st.schedule[date_key])
             THEN GeneralShiftLoop(st, ex, shifts, j + 1, inp)
             ELSE GeneralShiftLoop(Reassign(st, ex.worker, date_key, b),
                                   ex, shifts, j + 1, inp)

\* The loop over have_excess_shifts.
RECURSIVE GeneralExcessLoop(_, _, _, _, _)
GeneralExcessLoop(st, have_excess, i, max_redistributions, inp) ==
    IF i > Len(have_excess) \/ st.made >= max_redistributions THEN st.schedule
    ELSE GeneralExcessLoop(
             GeneralShiftLoop([st EXCEPT !.removed = 0], have_excess[i],
                              worker_shifts(st.schedule, have_excess[i].worker),
                              1, inp),
             have_excess, i + 1, max_redistributions, inp)

\* _redistribute_general_shifts
redistribute_general_shifts(sched, violations, inp) ==
    GeneralExcessLoop(
        [schedule |-> sched,
         need |-> SortByPriority(SelectSeq(violations, NeedsMore)),
         removed |-> 0,
         made |-> 0],
        SortByPriority(SelectSeq(violations, HasExcess)),
        1, Min(30, Len(violations) * 3), inp)

\* The loop over weekend_shifts of one excess worker: only the first
\* min(len(weekend_shifts), excess) shifts are looked at.
RECURSIVE WeekendShiftLoop(_, _, _, _, _, _)
WeekendShiftLoop(st, ex, shifts, j, max_redistributions, inp) ==
    IF \/ j > Len(shifts)
       \/ j - 1 >= Min(Len(shifts), ex.excess)
       \/ st.made >= max_redistributions
    THEN st
    ELSE LET date_key == shifts[j][1]
             b == BestRecipient(st.schedule, st.need, date_key, inp, TRUE)
         IN  IF b = 0 \/ ex.worker \notin Range(st.schedule[date_key])
             THEN WeekendShiftLoop(st, ex, shifts, j + 1,
                                   max_redistributions, inp)
             ELSE WeekendShiftLoop(Reassign(st, ex.worker, date_key, b),
                                   ex, shifts, j + 1, max_redistributions, inp)

\* The loop over have_excess_weekends.
RECURSIVE WeekendExcessLoop(_, _, _, _, _)
WeekendExcessLoop(st, have_excess, i, max_redistributions, inp) ==
    IF i > Len(have_excess) \/ st.made >= max_redistributions THEN st.schedule
    ELSE WeekendExcessLoop(
             WeekendShiftLoop(st, have_excess[i],
                              weekend_shifts(st.schedule, have_excess[i].worker),
                              1, max_redistributions, inp),
             have_excess, i + 1, max_redistributions, inp)

\* _redistribute_weekend_shifts
redistribute_weekend_shifts(sched, violations, inp) ==
    WeekendExcessLoop(
        [schedule |-> sched,
         need |-> SortByPriority(SelectSeq(violations, NeedsMore)),
         removed |-> 0,
         made |-> 0],
        SortByPriority(SelectSeq(violations, HasExcess)),
        1, Min(15, Len(violations) * 2), inp)

\* _apply_random_perturbations on the positional grid: the sum over
\* assignments.values() raises (a date's value is a list) whenever the
\* schedule has a date.
perturbation_raises(sched) == DOMAIN sched # {}

\* _apply_optimization_strategies: general redistribution, then weekend
\* redistribution, both on the violations of the same report, then the
\* perturbation when the iteration is not the first and the optimisation is
\* stuck.  raised tells whether an exception leaves the method.
apply_optimization_strategies(sched, report, inp, iter, stagnation) ==
    LET general == report.general_shift_violations
        weekend == report.weekend_shift_violations
        s1 == IF general # <<>>
              THEN redistribute_general_shifts(sched, general, inp)
              ELSE sched
        s2 == IF weekend # <<>>
              THEN redistribute_weekend_shifts(s1, weekend, inp)
              ELSE s1
        perturb == iter > 1 /\ (Len(general) + Len(weekend) > 15 \/ stagnation > 1)
    IN  [raised |-> perturb /\ perturbation_raises(s2),
         schedule |-> s2]

\* _calculate_average_improvement() < 0.5
LowAverageImprovement(history) ==
    \/ Len(history) < 2
    \/ 2 * (history[1] - history[Len(history)]) < Len(history)

\* _should_stop_optimization without its check of the last three history
\* entries.
should_stop_without_plateau(iter, current_violations, stagnation, history) ==
    \/ stagnation >= convergence_threshold
    \/ (current_violations <= 5 /\ iter >= 8)
    \/ (iter >= 8 /\ current_violations > 20 /\ LowAverageImprovement(history))

\* _should_stop_optimization(iteration, current_violations), on the history
\* and the stagnation counter as they are after this iteration's update.
should_stop_optimization(iter, current_violations, stagnation, history) ==
    \/ stagnation >= convergence_threshold
    \/ (current_violations <= 5 /\ iter >= 8)
    \/ (/\ Len(history) >= 3
        /\ history[Len(history) - 1] = history[Len(history)]
        /\ history[Len(history) - 2] = history[Len(history)])
    \/ (iter >= 8 /\ current_violations > 20 /\ LowAverageImprovement(history))

NoResult == [success |-> FALSE, iteration |-> 0, total_violations |-> Inf,
             general_violations |-> 0, weekend_violations |-> 0,
             schedule |-> <<>>]

\* optimize_schedule up to the loop: the schedule is copied twice.
OptimizeSchedule(sched, targets, wtargets, unavailable) ==
    /\ opt_input' = [schedule |-> sched, target_shifts |-> targets,
                     weekend_targets |-> wtargets, unavailable |-> unavailable]
    /\ current_schedule' = sched
    /\ best_schedule' = sched
    /\ best_violations' = Inf
    /\ iteration' = 1
    /\ opt_pc' = "running"
    /\ validated_schedules' = {}
    /\ call_counts' = <<>>
    /\ caller_schedule' = sched
    /\ calls' = calls + 1
    /\ first_call' = IF calls = 1
                     THEN [iterations |-> Len(call_counts), result |-> result,
                           validator_raised |-> validator_raised]
                     ELSE first_call
    /\ last_op' = "optimize_schedule"
    /\ UNCHANGED <<schedVars, btVars, coreVars, balanceVars, auto_recovery_result,
                   max_iterations, stagnation_counter, optimization_history,
                   best_result, result, validator_schedule, validator_raised>>

\* The body of the loop of optimize_schedule on the validation report of
\* current_schedule and the outcome of _apply_optimization_strategies, and the
\* return that follows when the loop ends with this pass.
IterationBody(report, applied) ==
    LET general_violations == Len(report.general_shift_violations)
        weekend_violations == Len(report.weekend_shift_violations)
        total_violations == general_violations + weekend_violations
        improved == total_violations < best_violations
        stagnation == IF improved THEN 0 ELSE stagnation_counter + 1
        found == [success |-> FALSE, iteration |-> iteration,
                  total_violations |-> total_violations,
                  general_violations |-> general_violations,
                  weekend_violations |-> weekend_violations,
                  schedule |-> current_schedule]
        best == IF improved THEN found ELSE best_result
        history == Append(optimization_history, total_violations)
        stop == should_stop_optimization(iteration, total_violations,
                                         stagnation, history)
    IN  IF total_violations = 0
        THEN /\ result' = [found EXCEPT !.success = TRUE]
             /\ opt_pc' = "returned"
             /\ UNCHANGED <<stagnation_counter, optimization_history,
                            best_result, iteration, current_schedule,
                            best_schedule, best_violations>>
        ELSE /\ stagnation_counter' = stagnation
             /\ optimization_history' = history
             /\ best_result' = best
             /\ best_violations' = IF improved THEN total_violations
                                   ELSE best_violations
             /\ best_schedule' = IF improved THEN current_schedule
                                 ELSE best_schedule
             /\ current_schedule' = IF stop \/ applied.raised
                                    THEN current_schedule
                                    ELSE applied.schedule
             /\ IF stop \/ iteration = max_iterations
                THEN /\ opt_pc' = "returned"
                     /\ result' = best
                     /\ iteration' = iteration
                ELSE /\ opt_pc' = "running"
                     /\ result' = result
                     /\ iteration' = iteration + 1

\* The report _create_validation_report returns when the validator raises.
FailedValidationReport ==
    [general_shift_violations |-> <<>>, weekend_shift_violations |-> <<>>]

\* One pass through the loop of optimize_schedule.  validator_raises tells
\* whether the tolerance validator raises while the report is made: its
\* schedule is then left at current_schedule, and is put back otherwise.  The
\* passes work on deep copies, the caller's schedule is not written.
OptimizeIteration ==
    /\ opt_pc = "running"
    /\ \E validator_raises \in BOOLEAN :
       \E report \in {IF validator_raises THEN FailedValidationReport
                      ELSE create_validation_report(current_schedule, opt_input)} :
       \E applied \in {apply_optimization_strategies(
                           current_schedule, report, opt_input, iteration,
                           IF Len(report.general_shift_violations)
                              + Len(report.weekend_shift_violations)
                              < best_violations
                           THEN 0 ELSE stagnation_counter + 1)} :
           /\ IterationBody(report, applied)
           /\ call_counts' = Append(call_counts,
                                    Len(report.general_shift_violations)
                                    + Len(report.weekend_shift_violations))
           /\ validator_raised' = validator_raises
           /\ validator_schedule' = IF validator_raises THEN "current_schedule"
                                    ELSE validator_schedule
    /\ validated_schedules' = validated_schedules \cup {current_schedule}
    /\ last_op' = "optimize_iteration"
    /\ UNCHANGED <<schedVars, btVars, coreVars, balanceVars, auto_recovery_result,
                   max_iterations, opt_input, caller_schedule, calls,
                   first_call>>

\* ------------------------------------------------------------ SchedulerCore
\* num_attempts of _multiple_initial_distribution_attempts for a
\* complexity_score below 1000.
num_attempts == 3

\* best_score before the first attempt.
InitialBestScore == -1

\* The overall scores OptimizationMetrics may report for an attempt: a
\* weighted sum with negative terms.
AttemptScores == (-2)..MaxScore

\* The five structures the initial attempts back up, restore and retain,
\* references followed.
AttemptState ==
    [schedule |-> schedule,
     worker_assignments |-> worker_assignments,
     worker_shift_counts |-> heap[worker_shift_counts],
     worker_weekend_counts |-> heap[worker_weekend_counts],
     worker_posts |-> worker_posts]

\* A random.seed that leaves the generator in the state it was in.
random_seed_ignored(st, seed) == st

\* The state random.seed(seed) leaves the process-wide generator in: it
\* depends on the seed alone.
random_seed(st, seed) == seed

\* The state of the generator after one more draw.
NextRngState(st) == (7 * st + 1) % 1009

\* random.shuffle(s) with the generator in state st: a permutation that is a
\* function of the state, each permutation being produced by some state.
RECURSIVE Shuffle(_, _)
Shuffle(s, st) ==
    IF s = <<>> THEN <<>>
    ELSE LET i == (st % Len(s)) + 1
         IN <<s[i]>> \o Shuffle(SubSeq(s, 1, i - 1) \o SubSeq(s, i + 1, Len(s)),
                                st \div Len(s))

\* list.sort(key=...): stable, ascending in key.
RECURSIVE InsertByKey(_, _, _)
InsertByKey(sorted, x, key) ==
    IF sorted = <<>> THEN <<x>>
    ELSE IF key[x] < key[Head(sorted)] THEN <<x>> \o sorted
    ELSE <<Head(sorted)>> \o InsertByKey(Tail(sorted), x, key)

RECURSIVE SortByKey(_, _)
SortByKey(s, key) ==
    IF s = <<>> THEN <<>>
    ELSE InsertByKey(SortByKey(SubSeq(s, 1, Len(s) - 1), key), s[Len(s)], key)

\* The order of the worker ids as Python strings.
IdRank == [w \in Workers |-> CASE w = "1" -> 1 [] w = "A" -> 2 [] OTHER -> 3]

\* _select_distribution_strategy: worker order and seed of attempt n.  The
\* strategies with no seed have seed None.
StrategyOrders ==
    <<"balanced", "random", "sequential", "random", "reverse",
      "random", "workload", "random", "alternating", "random">>

select_distribution_strategy(n) ==
    LET i == ((n - 1) % Len(StrategyOrders)) + 1
    IN [worker_order |-> StrategyOrders[i],
        seed |-> CASE i = 2 -> <<42 + n>>
                   [] i = 4 -> <<100 + n * 7>>
                   [] i = 6 -> <<200 + n * 13>>
                   [] i = 8 -> <<300 + n * 17>>
                   [] i = 10 -> <<400 + n * 23>>
                   [] OTHER -> <<>>]

\* _get_ordered_workers_list for the orders of the attempts 1..num_attempts,
\* with the generator in state st and the current worker_shift_counts: the
\* ordered workers and the state the generator is left in.
get_ordered_workers_list(order_type, st, counts) ==
    CASE order_type = "random" ->
             [workers |-> Shuffle(WorkerOrder, st), rng |-> NextRngState(st)]
      [] order_type = "sequential" ->
             [workers |-> SortByKey(WorkerOrder, IdRank), rng |-> st]
      [] order_type = "balanced" ->
             [workers |-> SortByKey(WorkerOrder, counts), rng |-> st]
      [] OTHER -> [workers |-> WorkerOrder, rng |-> st]

\* Whether the builder may give worker w a cell of date d of grid g.
CanTake(g, asg, w, d) ==
    /\ w \notin WorkersOn(g, d)
    /\ \A e \in asg[w] : Abs(e - d) >= gap_between_shifts - 1

\* _try_fill_empty_shifts_with_worker_order: the next assignment of the
\* fill, the first empty cell some worker may take and the first worker of
\* workers_list who may take it; <<>> when there is none.
NextFill(g, asg, order) ==
    LET takers(d) == SelectSeq(order, LAMBDA w : CanTake(g, asg, w, d))
        open == SelectSeq(CellsOfDates(DateOrder),
                          LAMBDA c : g[c[1]][c[2]] = None /\ takers(c[1]) # <<>>)
    IN IF open = <<>> THEN <<>>
       ELSE <<open[1], Head(takers(open[1][1]))>>

\* One assignment of the fill of the current attempt.
OrderedFill ==
    /\ core_pc = "filling"
    /\ LET choice == NextFill(schedule, worker_assignments, workers_list)
       IN /\ choice # <<>>
          /\ Assign(choice[2], choice[1][1], choice[1][2])

\* _multiple_initial_distribution_attempts up to its loop, entered when the
\* mandatory phase has returned: the five mandatory_* deep copies.
BeginAttempts ==
    /\ core_pc = "mandatory"
    /\ core_pc' = "attempts"
    /\ mandatory_backup' = AttemptState
    /\ mandatory_state' = StateValue
    /\ best_attempt' = 0
    /\ best_score' = InitialBestScore
    /\ best_saved' = <<>>
    /\ attempts_results' = <<>>
    /\ attempt_num' = 0
    /\ last_op' = "begin_attempts"
    /\ UNCHANGED <<schedVars, btVars, optVars, balanceVars, auto_recovery_result,
                   attempts_returned, rng_state, workers_list,
                   improvementVars, finalVars>>

\* The head of one pass of the loop: the five structures are replaced by deep
\* copies of the backups, the other structures are left as they are.  Then
\* the pass's strategy is selected and _perform_initial_fill_with_strategy
\* seeds the generator when the strategy has a seed and orders the workers.
StartAttempt ==
    /\ core_pc = "attempts"
    /\ attempt_num < num_attempts
    /\ attempt_num' = attempt_num + 1
    /\ LET strategy == select_distribution_strategy(attempt_num + 1)
           seeded == IF strategy.seed = <<>> THEN rng_state
                     ELSE random_seed(rng_state, strategy.seed[1])
           ordered == get_ordered_workers_list(strategy.worker_order, seeded,
                          mandatory_backup.worker_shift_counts)
       IN /\ workers_list' = ordered.workers
          /\ rng_state' = ordered.rng
    /\ schedule' = mandatory_backup.schedule
    /\ worker_assignments' = mandatory_backup.worker_assignments
    /\ worker_posts' = mandatory_backup.worker_posts
    /\ heap' = heap \o <<mandatory_backup.worker_shift_counts,
                         mandatory_backup.worker_weekend_counts>>
    /\ worker_shift_counts' = Len(heap) + 1
    /\ worker_weekend_counts' = Len(heap) + 2
    /\ core_pc' = "filling"
    /\ last_op' = "start_attempt"
    /\ UNCHANGED <<worker_post_counts, worker_weekdays, worker_weekends,
                   last_assignment_date, consecutive_shifts, mutations,
                   btVars, optVars, balanceVars, auto_recovery_result, mandatory_state,
                   mandatory_backup, best_attempt, best_score, best_saved,
                   attempts_results, attempts_returned, improvementVars, finalVars>>

\* The rest of the pass, once _perform_initial_fill_with_strategy has
\* returned success: the attempt is recorded (score 0 for a failed one) and,
\* when its score is greater than best_score, saved as the best.
FinishAttempt(success, score, workload_imbalance) ==
    /\ core_pc = "filling"
    /\ attempts_results' = Append(attempts_results,
           [attempt |-> attempt_num,
            success |-> success,
            score |-> IF success THEN score ELSE 0,
            empty_shifts |-> count_empty_shifts(schedule),
            workload_imbalance |-> workload_imbalance,
            state |-> AttemptState])
    /\ IF success /\ score > best_score
       THEN /\ best_score' = score
            /\ best_attempt' = attempt_num
            /\ best_saved' = <<AttemptState>>
       ELSE UNCHANGED <<best_score, best_attempt, best_saved>>
    /\ core_pc' = "attempts"
    /\ last_op' = "finish_attempt"
    /\ UNCHANGED <<schedVars, btVars, optVars, balanceVars, auto_recovery_result,
                   mandatory_state, mandatory_backup, attempt_num,
                   attempts_returned, rng_state, workers_list,
                   improvementVars, finalVars>>

\* _synchronize_tracking_data on grid g: the counters rebuilt from the grid.
SynchronizedCounts(g, weekend_only) ==
    [w \in Workers |->
        Cardinality({c \in Cells : /\ g[c[1]][c[2]] = w
                                   /\ weekend_only => IsWeekend(c[1])})]

\* The code after the loop.  Without a successful attempt it returns False.
\* With successful attempts of which none scored above the initial
\* best_score, best_schedule is unbound: the exception is caught and False
\* is returned.  Otherwise the best attempt's copies become the scheduler's
\* structures and the tracking data is synchronized.
ApplyBestAttempt ==
    /\ core_pc = "attempts"
    /\ attempt_num = num_attempts
    /\ core_pc' = "improvement"
    /\ last_op' = "apply_best_attempt"
    /\ IF (\E i \in 1..Len(attempts_results) : attempts_results[i].success)
          /\ best_saved # <<>>
       THEN /\ schedule' = best_saved[1].schedule
            /\ worker_assignments' =
                   [w \in Workers |->
                       {d \in Dates : w \in WorkersOn(best_saved[1].schedule, d)}]
            /\ worker_posts' = best_saved[1].worker_posts
            /\ heap' = heap \o
                   <<SynchronizedCounts(best_saved[1].schedule, FALSE),
                     SynchronizedCounts(best_saved[1].schedule, TRUE)>>
            /\ worker_shift_counts' = Len(heap) + 1
            /\ worker_weekend_counts' = Len(heap) + 2
            /\ attempts_returned' = TRUE
       ELSE /\ attempts_returned' = FALSE
            /\ UNCHANGED <<heap, schedule, worker_assignments, worker_posts,
                           worker_shift_counts, worker_weekend_counts>>
    /\ UNCHANGED <<worker_post_counts, worker_weekdays, worker_weekends,
                   last_assignment_date, consecutive_shifts, mutations,
                   btVars, optVars, balanceVars, auto_recovery_result, mandatory_state,
                   mandatory_backup, attempt_num, best_attempt, best_score,
                   best_saved, attempts_results, rng_state, workers_list,
                   improvementVars, finalVars>>

\* The smallest number of loops _iterative_improvement_phase allows itself.
ForcedMinimumLoops == 120

\* The values of max_improvement_loops a caller may pass.
LoopsArguments == (1..MaxLoopsArgument) \cup {ForcedMinimumLoops + 1}

\* _iterative_improvement_phase(max_improvement_loops) up to its loop.
BeginImprovement(argument) ==
    /\ core_pc = "improvement"
    /\ core_pc' = "improving"
    /\ loops_argument' = argument
    /\ max_improvement_loops' =
           IF argument < ForcedMinimumLoops THEN ForcedMinimumLoops
           ELSE argument
    /\ improvement_loop_count' = 0
    /\ overall_improvement_made' = TRUE
    /\ last_op' = "begin_improvement"
    /\ UNCHANGED <<schedVars, btVars, optVars, balanceVars, auto_recovery_result,
                   attemptVars, finalVars>>

\* One pass of the loop, the operations of the pass having run:
\* cycle_improvement_made tells whether one of them made a significant
\* improvement, should_continue is what
\* metrics.should_continue_optimization returns.  The pass records the
\* iteration in the monitor and the metrics and calls nothing else; the loop
\* ends on the break, on a pass without improvement, or at the limit.
ImprovementIteration(cycle_improvement_made, should_continue) ==
    /\ core_pc = "improving"
    /\ overall_improvement_made
    /\ improvement_loop_count < max_improvement_loops
    /\ improvement_loop_count' = improvement_loop_count + 1
    /\ overall_improvement_made' =
           IF should_continue THEN cycle_improvement_made
           ELSE overall_improvement_made
    /\ core_pc' =
           IF \/ ~ should_continue
              \/ ~ cycle_improvement_made
              \/ improvement_loop_count + 1 >= max_improvement_loops
           THEN "finalization"
           ELSE "improving"
    /\ last_op' = "improvement_iteration"
    /\ UNCHANGED <<schedVars, btVars, optVars, balanceVars, auto_recovery_result,
                   attemptVars, finalVars, loops_argument,
                   max_improvement_loops>>

\* max_final_balance_loops of _finalization_phase.
max_final_balance_loops == 50

\* What schedule_builder.get_best_schedule() hands out: the structures
\* _apply_final_schedule reads, references followed.
FinalScheduleData ==
    [schedule |-> schedule,
     worker_assignments |-> worker_assignments,
     worker_shift_counts |-> heap[worker_shift_counts],
     worker_weekend_counts |-> heap[worker_weekend_counts],
     worker_posts |-> worker_posts,
     last_assignment_date |-> heap[last_assignment_date],
     consecutive_shifts |-> heap[consecutive_shifts]]

\* schedule_builder._save_current_as_best(): the builder keeps a copy of the
\* current structures.
SaveCurrentAsBest ==
    /\ core_pc = "strict_balance"
    /\ best_schedule_data # <<FinalScheduleData>>
    /\ best_schedule_data' = <<FinalScheduleData>>
    /\ last_op' = "save_current_as_best"
    /\ UNCHANGED <<schedVars, btVars, optVars, balanceVars, auto_recovery_result, core_pc,
                   attemptVars, improvementVars, strict_iterations,
                   no_change_streak, tolerance_violations_found, orchestrate_result>>

\* _finalization_phase up to the strict-balance loop: the last-post
\* adjustment and the extra pass of the schedule builder.  raises tells
\* whether one of the builder's calls raises; the phase then returns False
\* and orchestrate_schedule_generation raises SchedulerError.
BeginFinalization(raises) ==
    /\ core_pc = "finalization"
    /\ core_pc' = IF raises THEN "raised" ELSE "strict_balance"
    /\ orchestrate_result' = IF raises THEN "SchedulerError" ELSE orchestrate_result
    /\ strict_iterations' = 0
    /\ no_change_streak' = 0
    /\ last_op' = "begin_finalization"
    /\ UNCHANGED <<schedVars, btVars, optVars, balanceVars, auto_recovery_result,
                   attemptVars, improvementVars, tolerance_violations_found,
                   best_schedule_data>>

\* One pass of the strict-balance loop: changed1, changed2 and changed3 are
\* what _balance_workloads, _adjust_last_post_distribution and
\* _balance_weekday_distribution return.  The loop is left on the first pass
\* without a change, or after max_final_balance_loops passes.
StrictBalanceIteration(changed1, changed2, changed3) ==
    /\ core_pc = "strict_balance"
    /\ strict_iterations < max_final_balance_loops
    /\ strict_iterations' = strict_iterations + 1
    /\ no_change_streak' =
           IF ~ changed1 /\ ~ changed2 /\ ~ changed3
           THEN no_change_streak + 1 ELSE 0
    /\ core_pc' =
           IF \/ (~ changed1 /\ ~ changed2 /\ ~ changed3)
              \/ strict_iterations + 1 = max_final_balance_loops
           THEN "final_schedule"
           ELSE "strict_balance"
    /\ last_op' = "strict_balance_iteration"
    /\ UNCHANGED <<schedVars, btVars, optVars, balanceVars, auto_recovery_result,
                   attemptVars, improvementVars, tolerance_violations_found,
                   orchestrate_result, best_schedule_data>>

\* total_violations of _apply_tolerance_optimization on grid g.
ToleranceViolations(g, targets, wtargets) ==
    Len(get_workers_outside_tolerance(g, targets, FALSE))
        + Len(get_workers_outside_tolerance(g, wtargets, TRUE))

\* The rest of _finalization_phase and the return of
\* orchestrate_schedule_generation.
\*  - Without best schedule data the fallback applies the current
\*    structures, or returns False when every cell is empty: the phase
\*    returns False and orchestrate_schedule_generation raises SchedulerError.
\*  - Otherwise _apply_final_schedule makes the best data the scheduler's
\*    structures and _perform_final_validation runs
\*    _apply_tolerance_optimization: with violations it calls
\*    self.iterative_optimizer.optimize, a method IterativeOptimizer does not
\*    have; the AttributeError is caught and logged, the optimizer is not
\*    entered and the schedule stays as it is.
FinishFinalization(targets, wtargets) ==
    /\ core_pc = "final_schedule"
    /\ last_op' = "finish_finalization"
    /\ IF best_schedule_data = <<>>
       THEN /\ IF count_empty_shifts(schedule) = Cardinality(Cells)
               THEN /\ core_pc' = "raised"
                    /\ orchestrate_result' = "SchedulerError"
               ELSE /\ core_pc' = "returned"
                    /\ orchestrate_result' = "True"
            /\ UNCHANGED <<schedVars, tolerance_violations_found>>
       ELSE /\ schedule' = best_schedule_data[1].schedule
            /\ worker_assignments' = best_schedule_data[1].worker_assignments
            /\ worker_posts' = best_schedule_data[1].worker_posts
            /\ heap' = heap \o <<best_schedule_data[1].worker_shift_counts,
                                 best_schedule_data[1].worker_weekend_counts,
                                 best_schedule_data[1].last_assignment_date,
                                 best_schedule_data[1].consecutive_shifts>>
            /\ worker_shift_counts' = Len(heap) + 1
            /\ worker_weekend_counts' = Len(heap) + 2
            /\ last_assignment_date' = Len(heap) + 3
            /\ consecutive_shifts' = Len(heap) + 4
            /\ tolerance_violations_found' =
                   ToleranceViolations(best_schedule_data[1].schedule,
                                       targets, wtargets)
            /\ core_pc' = "returned"
            /\ orchestrate_result' = "True"
            /\ UNCHANGED <<worker_post_counts, worker_weekdays,
                           worker_weekends, mutations>>
    /\ UNCHANGED <<btVars, optVars, balanceVars, auto_recovery_result, attemptVars,
                   improvementVars, strict_iterations, no_change_streak,
                   best_schedule_data>>

\* --------------------------------------------------------- BalanceValidator
\* tolerance_percentage, emergency_limit and critical_threshold of
\* BalanceValidator.__init__.
tolerance_percentage == 8

emergency_limit == 10

critical_threshold == 15

\* workers_data of the validator's calls, in list order.
BalanceWorkerOrder == <<"A", "B">>

BalanceWorkers == Range(BalanceWorkerOrder)

\* An id that workers_data does not hold.
UnknownWorker == "Z"

\* worker.get('target_shifts', 0) of the workers a call may be given.
BalanceTargets == (0..MaxBalanceTarget) \cup {20, 25}

\* What _count_worker_shifts may return for a worker of target t: the
\* schedule of a call is given by the number of its cells that hold each
\* worker.
BalanceCounts(t) == {a \in 0..(t + MaxCountDistance) : a + MaxCountDistance >= t}

\* abs(assigned - target) / target * 100 if target > 0 else 0, as the
\* fraction <<numerator, denominator>>.
AbsDeviation(assigned, target) ==
    IF target > 0 THEN <<100 * Abs(assigned - target), target>> ELSE <<0, 1>>

\* x < y and x <= limit for a fraction x, a fraction y and a number limit.
DeviationLess(x, y) == x[1] * y[2] < y[1] * x[2]

DeviationWithin(x, limit) == x[1] <= limit * x[2]

\* The tiers with the emergency limit itself counted as critical.
TierBelowLimit(assigned, target) ==
    LET abs_deviation == AbsDeviation(assigned, target)
    IN  IF DeviationWithin(abs_deviation, tolerance_percentage)
        THEN "within_tolerance"
        ELSE IF abs_deviation[1] < emergency_limit * abs_deviation[2]
        THEN "within_emergency"
        ELSE IF DeviationWithin(abs_deviation, critical_threshold)
        THEN "critical"
        ELSE "extreme"

\* The list a worker of validate_schedule_balance is appended to.
Tier(assigned, target) ==
    LET abs_deviation == AbsDeviation(assigned, target)
    IN  IF DeviationWithin(abs_deviation, tolerance_percentage)
        THEN "within_tolerance"
        ELSE IF DeviationWithin(abs_deviation, emergency_limit)
        THEN "within_emergency"
        ELSE IF DeviationWithin(abs_deviation, critical_threshold)
        THEN "critical"
        ELSE "extreme"

Tiers == {"within_tolerance", "within_emergency", "critical", "extreme"}

\* validate_schedule_balance(schedule, workers_data): the workers of
\* target_shifts 0 are skipped, the others are appended to the list of their
\* tier in workers_data order.
ValidateScheduleBalance ==
    /\ balance_pc = "idle"
    /\ balance_pc' = "validated"
    /\ LET violations ==
               [tier \in Tiers |->
                   SelectSeq(BalanceWorkerOrder,
                             LAMBDA w : /\ balance_targets[w] # 0
                                        /\ Tier(balance_assigned[w],
                                                balance_targets[w]) = tier)]
       IN  balance_report' =
               [violations |-> violations,
                is_balanced |-> /\ Len(violations["critical"]) = 0
                                /\ Len(violations["extreme"]) = 0]
    /\ last_op' = "validate_schedule_balance"
    /\ UNCHANGED <<schedVars, btVars, optVars, coreVars, auto_recovery_result,
                   balance_assigned, balance_targets, transfer_check>>

\* check_transfer_validity without its emergency-limit conditions: one
\* worker improving is enough.
transfer_is_valid_unlimited(from_assigned, from_target, to_assigned, to_target) ==
    \/ DeviationLess(AbsDeviation(from_assigned - 1, from_target),
                     AbsDeviation(from_assigned, from_target))
    \/ DeviationLess(AbsDeviation(to_assigned + 1, to_target),
                     AbsDeviation(to_assigned, to_target))

\* check_transfer_validity with the emergency limit required of both workers
\* in every branch.
transfer_is_valid_limited(from_assigned, from_target, to_assigned, to_target) ==
    /\ DeviationWithin(AbsDeviation(from_assigned - 1, from_target), emergency_limit)
    /\ DeviationWithin(AbsDeviation(to_assigned + 1, to_target), emergency_limit)
    /\ \/ DeviationLess(AbsDeviation(from_assigned - 1, from_target),
                        AbsDeviation(from_assigned, from_target))
       \/ DeviationLess(AbsDeviation(to_assigned + 1, to_target),
                        AbsDeviation(to_assigned, to_target))

\* The boolean check_transfer_validity returns for two workers found in
\* workers_data.
transfer_is_valid(from_assigned, from_target, to_assigned, to_target) ==
    LET from_deviation == AbsDeviation(from_assigned, from_target)
        to_deviation == AbsDeviation(to_assigned, to_target)
        from_deviation_after == AbsDeviation(from_assigned - 1, from_target)
        to_deviation_after == AbsDeviation(to_assigned + 1, to_target)
        from_improves == DeviationLess(from_deviation_after, from_deviation)
        to_improves == DeviationLess(to_deviation_after, to_deviation)
    IN  \/ from_improves /\ to_improves
        \/ from_improves /\ DeviationWithin(to_deviation_after, emergency_limit)
        \/ to_improves /\ DeviationWithin(from_deviation_after, emergency_limit)

\* check_transfer_validity(from_worker_id, to_worker_id, schedule,
\* workers_data)
CheckTransferValidity(from_worker_id, to_worker_id) ==
    /\ balance_pc = "idle"
    /\ balance_pc' = "checked"
    /\ transfer_check' =
           [from_worker_id |-> from_worker_id,
            to_worker_id |-> to_worker_id,
            valid |->
                IF from_worker_id \notin BalanceWorkers
                   \/ to_worker_id \notin BalanceWorkers
                THEN FALSE
                ELSE transfer_is_valid(balance_assigned[from_worker_id],
                                       balance_targets[from_worker_id],
                                       balance_assigned[to_worker_id],
                                       balance_targets[to_worker_id])]
    /\ last_op' = "check_transfer_validity"
    /\ UNCHANGED <<schedVars, btVars, optVars, coreVars, auto_recovery_result,
                   balance_assigned, balance_targets, balance_report>>

\* ----------------------------------------------------------- specification
InitScheduler ==
    /\ heap = <<ZeroCounts, ZeroCounts, NoDates, ZeroCounts>>
    /\ worker_shift_counts = 1
    /\ worker_weekend_counts = 2
    /\ last_assignment_date = 3
    /\ consecutive_shifts = 4
    /\ schedule = EmptySchedule
    /\ worker_assignments = [w \in Workers |-> {}]
    /\ worker_posts = [w \in Workers |-> {}]
    /\ worker_post_counts = [w \in Workers |-> [p \in 1..2 |-> 0]]
    /\ worker_weekdays = [w \in Workers |-> [k \in 0..6 |-> 0]]
    /\ worker_weekends = [w \in Workers |-> <<>>]
    /\ mutations = 0

InitBacktracking(limit) ==
    /\ max_checkpoints = limit
    /\ checkpoints = <<>>
    /\ checkpoint_counter = 0
    /\ dead_end_indicators = DeadEndIndicators
    /\ last_score = NegInf
    /\ iterations_without_improvement = 0
    /\ rollback_history = <<>>
    /\ dead_end_result = [returned |-> FALSE, tolerance_violations |-> 0]
    /\ at_creation = <<>>
    /\ restored = 0
    /\ auto_recovery_result = [returned |-> FALSE, current_score |-> NegInf]
    /\ should_create_result = [iteration |-> 0, phase |-> None,
                               current_score |-> NegInf, returned |-> FALSE]

\* IterativeOptimizer.__init__(max_iterations)
InitOptimizer(m) ==
    /\ max_iterations = m
    /\ stagnation_counter = 0
    /\ optimization_history = <<>>
    /\ best_result = NoResult
    /\ opt_pc = "idle"
    /\ opt_input = [schedule |-> EmptySchedule,
                    target_shifts |-> [w \in Workers |-> 1],
                    weekend_targets |-> [w \in Workers |-> 1],
                    unavailable |-> [w \in Workers |-> {}]]
    /\ iteration = 0
    /\ current_schedule = EmptySchedule
    /\ best_schedule = EmptySchedule
    /\ best_violations = Inf
    /\ result = NoResult
    /\ validated_schedules = {}
    /\ call_counts = <<>>
    /\ validator_schedule = "scheduler.schedule"
    /\ validator_raised = FALSE
    /\ caller_schedule = EmptySchedule
    /\ calls = 0
    /\ first_call = [iterations |-> 0, result |-> NoResult,
                     validator_raised |-> FALSE]

\* SchedulerCore.__init__, with orchestrate_schedule_generation at phase pc
\* and the process-wide generator in state st.
InitCoreSeeded(pc, st) ==
    /\ core_pc = pc
    /\ rng_state = st
    /\ workers_list = <<>>
    /\ loops_argument = 0
    /\ max_improvement_loops = 0
    /\ improvement_loop_count = 0
    /\ overall_improvement_made = TRUE
    /\ strict_iterations = 0
    /\ no_change_streak = 0
    /\ tolerance_violations_found = -1
    /\ best_schedule_data = <<>>
    /\ orchestrate_result = "none"
    /\ mandatory_state = <<>>
    /\ mandatory_backup = <<>>
    /\ attempt_num = 0
    /\ best_attempt = 0
    /\ best_score = InitialBestScore
    /\ best_saved = <<>>
    /\ attempts_results = <<>>
    /\ attempts_returned = FALSE

InitCore(pc) == InitCoreSeeded(pc, 0)

NoBalanceReport == [violations |-> [tier \in Tiers |-> <<>>], is_balanced |-> TRUE]

NoTransferCheck == [from_worker_id |-> None, to_worker_id |-> None, valid |-> FALSE]

\* A BalanceValidator and the schedule and workers_data its calls are given.
InitBalance(assigned, targets) ==
    /\ balance_pc = "idle"
    /\ balance_assigned = assigned
    /\ balance_targets = targets
    /\ balance_report = NoBalanceReport
    /\ transfer_check = NoTransferCheck

NoShifts == [w \in BalanceWorkers |-> 0]

NoTargets == [w \in BalanceWorkers |-> 0]

Init ==
    /\ InitScheduler
    /\ InitCore("mandatory")
    /\ \E limit \in 1..MaxCheckpointLimit : InitBacktracking(limit)
    /\ InitOptimizer(MaxIterations)
    /\ InitBalance(NoShifts, NoTargets)
    /\ last_op = "init"

InitOptimizerSpec ==
    /\ InitScheduler
    /\ InitCore("mandatory")
    /\ InitBacktracking(MaxCheckpointLimit)
    /\ \E m \in 1..MaxIterations : InitOptimizer(m)
    /\ InitBalance(NoShifts, NoTargets)
    /\ last_op = "init"

DoAssign == \E w \in Workers, c \in Cells : Assign(w, c[1], c[2])

DoRemove == \E c \in Cells : Remove(c[1], c[2])

DoCreateCheckpoint ==
    \E score \in Scores, imbalance \in 0..MaxImbalance :
        CreateCheckpoint(score, imbalance)

DoRollback ==
    /\ \E i \in 1..Len(checkpoints) : RollbackToCheckpoint(checkpoints[i])
    /\ UNCHANGED <<dead_end_result, auto_recovery_result>>

DoDetectDeadEnd ==
    /\ \E score \in Scores, tv \in 0..MaxTolViol, severe \in BOOLEAN :
           DetectDeadEnd(score, tv, severe)
    /\ UNCHANGED auto_recovery_result

NextCheckpoint == DoAssign \/ DoRemove \/ DoCreateCheckpoint \/ DoRollback

SpecCheckpoint == Init /\ [][NextCheckpoint]_vars

NextDeadEnd == DoAssign \/ DoRemove \/ DoDetectDeadEnd

SpecDeadEnd == Init /\ [][NextDeadEnd]_vars

DoAutoRecovery ==
    \E score \in Scores, tv \in 0..MaxTolViol, severe \in BOOLEAN :
        AutoRecovery(score, tv, severe)

\* The builder's assignments between recoveries, for one worker and the
\* first weekend: what find_best_rollback_point reads of a checkpoint (empty
\* shifts, violations) does not depend on which worker holds which cell.
DoAssignOne == \E d \in {0, 1} : Assign("A", d, 1)

NextRecovery == DoAssignOne \/ DoCreateCheckpoint \/ DoAutoRecovery

\* A manager built with the largest checkpoint limit, before any phase.
InitRecoverySpec ==
    /\ InitScheduler
    /\ InitCore("mandatory")
    /\ InitBacktracking(MaxCheckpointLimit)
    /\ InitOptimizer(MaxIterations)
    /\ InitBalance(NoShifts, NoTargets)
    /\ last_op = "init"

SpecRecovery == InitRecoverySpec /\ [][NextRecovery]_vars

DoOptimizeSchedule ==
    /\ opt_pc = "idle"
    /\ \E sched \in InputSchedules, targets \in [Workers -> Targets],
          wtargets \in [Workers -> WeekendTargets],
          unavailable \in Availabilities :
           OptimizeSchedule(sched, targets, wtargets, unavailable)

NextOptimizer == DoOptimizeSchedule \/ OptimizeIteration

\* A second call on the same instance, with the arguments of the first.
OptimizeAgain ==
    /\ opt_pc = "returned"
    /\ calls = 1
    /\ OptimizeSchedule(opt_input.schedule, opt_input.target_shifts,
                        opt_input.weekend_targets, opt_input.unavailable)

\* An optimizer of the largest max_iterations.
InitRepeatedSpec ==
    /\ InitScheduler
    /\ InitCore("mandatory")
    /\ InitBacktracking(MaxCheckpointLimit)
    /\ InitOptimizer(MaxIterations)
    /\ InitBalance(NoShifts, NoTargets)
    /\ last_op = "init"

NextRepeated == DoOptimizeSchedule \/ OptimizeIteration \/ OptimizeAgain

SpecRepeated == InitRepeatedSpec /\ [][NextRepeated]_vars

SpecOptimizer == InitOptimizerSpec /\ [][NextOptimizer]_vars

\* The schedule builder's assignments of the mandatory phase and of an
\* attempt's fill.
DoBuilderAssign ==
    /\ core_pc \in {"mandatory", "filling"}
    /\ DoAssign

DoFinishAttempt ==
    \E success \in BOOLEAN, score \in AttemptScores,
       imbalance \in 0..MaxImbalance :
        FinishAttempt(success, score, imbalance)

NextAttempts ==
    \/ DoBuilderAssign
    \/ BeginAttempts
    \/ StartAttempt
    \/ DoFinishAttempt
    \/ ApplyBestAttempt

SpecAttempts == Init /\ [][NextAttempts]_vars

\* The initial attempts from every initial state of the generator, over the
\* builder's mandatory assignments and its ordered fill.
InitSeedsSpec ==
    /\ InitScheduler
    /\ \E st \in 0..MaxRngState : InitCoreSeeded("mandatory", st)
    /\ InitBacktracking(MaxCheckpointLimit)
    /\ InitOptimizer(MaxIterations)
    /\ InitBalance(NoShifts, NoTargets)
    /\ last_op = "init"

DoMandatoryAssign ==
    /\ core_pc = "mandatory"
    /\ DoAssign

\* The rest of a pass with each outcome of the fill and the lowest and the
\* highest score of a successful attempt.
DoFinishScoredAttempt ==
    \E success \in BOOLEAN, score \in {0, MaxScore} :
        FinishAttempt(success, score, 0)

NextSeeds ==
    \/ DoMandatoryAssign
    \/ BeginAttempts
    \/ StartAttempt
    \/ OrderedFill
    \/ DoFinishScoredAttempt
    \/ ApplyBestAttempt

SpecSeeds == InitSeedsSpec /\ [][NextSeeds]_vars

InitImprovementSpec ==
    /\ InitScheduler
    /\ InitBacktracking(MaxCheckpointLimit)
    /\ InitOptimizer(MaxIterations)
    /\ InitCore("improvement")
    /\ InitBalance(NoShifts, NoTargets)
    /\ last_op = "init"

DoBeginImprovement == \E argument \in LoopsArguments : BeginImprovement(argument)

\* The operations of a pass: the schedule builder's primitives.
DoOperation ==
    /\ core_pc = "improving"
    /\ (DoAssign \/ DoRemove)

DoImprovementIteration ==
    \E cycle_improvement_made \in BOOLEAN, should_continue \in BOOLEAN :
        ImprovementIteration(cycle_improvement_made, should_continue)

NextImprovement == DoBeginImprovement \/ DoOperation \/ DoImprovementIteration

SpecImprovement == InitImprovementSpec /\ [][NextImprovement]_vars

InitFinalizationSpec ==
    /\ InitScheduler
    /\ InitBacktracking(MaxCheckpointLimit)
    /\ InitOptimizer(MaxIterations)
    /\ InitCore("finalization")
    /\ InitBalance(NoShifts, NoTargets)
    /\ last_op = "init"

DoBeginFinalization == \E raises \in BOOLEAN : BeginFinalization(raises)

\* The schedule builder's assignments during the balance passes.
DoBalanceOperation ==
    /\ core_pc = "strict_balance"
    /\ DoAssign

DoStrictBalanceIteration ==
    \E changed1 \in BOOLEAN, changed2 \in BOOLEAN, changed3 \in BOOLEAN :
        StrictBalanceIteration(changed1, changed2, changed3)

DoFinishFinalization ==
    \E targets \in [Workers -> Targets], wtargets \in [Workers -> WeekendTargets] :
        FinishFinalization(targets, wtargets)

NextFinalization ==
    \/ DoBeginFinalization
    \/ DoBalanceOperation
    \/ SaveCurrentAsBest
    \/ DoStrictBalanceIteration
    \/ DoFinishFinalization

SpecFinalization == InitFinalizationSpec /\ [][NextFinalization]_vars

\* Checkpoints made with the scores of CheckpointScores.
DoCreateScoredCheckpoint ==
    \E score \in CheckpointScores : CreateCheckpoint(score, 0)

DoShouldCreateCheckpoint ==
    \E iter \in DecisionIterations, phase \in Phases,
       current_score \in CurrentScores :
        ShouldCreateCheckpoint(iter, phase, current_score)

NextDecision == DoCreateScoredCheckpoint \/ DoShouldCreateCheckpoint

SpecDecision == InitRecoverySpec /\ [][NextDecision]_vars

InitBalanceSpec ==
    /\ InitScheduler
    /\ InitCore("mandatory")
    /\ InitBacktracking(MaxCheckpointLimit)
    /\ InitOptimizer(MaxIterations)
    /\ \E targets \in [BalanceWorkers -> BalanceTargets] :
       \E assigned \in [BalanceWorkers -> 0..(MaxOf(BalanceTargets) + MaxCountDistance)] :
           /\ \A w \in BalanceWorkers : assigned[w] \in BalanceCounts(targets[w])
           /\ InitBalance(assigned, targets)
    /\ last_op = "init"

DoCheckTransferValidity ==
    \E from_worker_id, to_worker_id \in BalanceWorkers \cup {UnknownWorker} :
        CheckTransferValidity(from_worker_id, to_worker_id)

NextBalance == ValidateScheduleBalance \/ DoCheckTransferValidity

SpecBalance == InitBalanceSpec /\ [][NextBalance]_vars

\* ------------------------------------------------------------------ claims
\* For every worker: the counter, the assignment set and the grid agree.
CountsConsistent ==
    \A w \in Workers :
        /\ heap[worker_shift_counts][w] = Cardinality(worker_assignments[w])
        /\ heap[worker_shift_counts][w] = CellsHolding(schedule, w)

\* C1: after rollback_to_checkpoint(cp) every ScheduleState structure a
\* checkpoint holds has the value it had when create_checkpoint produced cp,
\* whatever in-place assignments, removals, checkpoints and rollbacks happened
\* in between.
C1_RollbackRestoresCreationState ==
    last_op = "rollback" => StateValue = at_creation[restored]

\* C8: at the quiescent points of BacktrackingManager (after
\* create_checkpoint, after rollback_to_checkpoint) every worker's
\* worker_shift_counts equals the size of its worker_assignments and the
\* number of grid cells holding it.
C8_CountsMatchAtQuiescentPoints ==
    last_op \in {"create_checkpoint", "rollback"} => CountsConsistent

\* C9: for every max_checkpoints >= 1 the number of stored checkpoints never
\* exceeds max_checkpoints.
C9_CheckpointsNeverExceedLimit ==
    Len(checkpoints) <= max_checkpoints

\* C10: detect_dead_end returns true whenever tolerance_violations > 0 and the
\* score has not strictly improved for 3 or more consecutive calls.
C10_PersistentViolationsAreDeadEnd ==
    (/\ last_op = "detect_dead_end"
     /\ dead_end_result.tolerance_violations > 0
     /\ iterations_without_improvement >= PersistentIterations)
        => dead_end_result.returned

\* C11: whenever auto_recovery performs a rollback, the score of the
\* checkpoint it restores (last_score after the rollback) is greater than or
\* equal to the score the schedule had immediately before the rollback.
C11_RecoveryRestoresNoLowerScore ==
    (last_op = "rollback" /\ auto_recovery_result.returned)
        => last_score >= auto_recovery_result.current_score

\* ---------------------------------------------- claims on IterativeOptimizer
\* The dates on which a cell of the grid holds the value v.
DatesOf(sched, v) == {d \in Dates : v \in Range(sched[d])}

\* The values a cell can hold besides None: ids and report names.
CellValues == Workers \cup {WorkerName(w) : w \in Workers}

\* verify_7_14_constraint: the holder of some cell has another cell 7 or 14
\* days later on the same weekday.
HasPattern7_14(sched) ==
    \E v \in CellValues : \E d1, d2 \in DatesOf(sched, v) :
        /\ d2 - d1 \in {7, 14}
        /\ Weekday(d1) = Weekday(d2)

\* check_violations: two workers of one date, one of them in the other's
\* incompatible_with.
HasIncompatibility(sched) ==
    \E d \in Dates : \E w1, w2 \in Range(sched[d]) \cap Workers :
        w1 # w2 /\ (w2 \in incompatible_with[w1] \/ w1 \in incompatible_with[w2])

\* _count_violations on the assignments read off the grid.
GapViolations(sched) ==
    count_violations([w \in Workers |-> DatesOf(sched, w)])

\* The (worker, date) pairs the schedule builder locked: the mandatory days
\* on which the worker is assigned in the schedule given to the optimizer.
locked_mandatory ==
    {x \in Workers \X Dates :
        x[2] \in mandatory_days[x[1]]
        /\ x[2] \in DatesOf(opt_input.schedule, x[1])}

\* int(target * 1.12 + 0.5), i.e. round(target * 1.12)
MaxShifts(target) == (target * 112 + 50) \div 100

WithinMaxShifts(sched) ==
    \A w \in Workers :
        AssignedShifts(sched, w, FALSE) <= MaxShifts(opt_input.target_shifts[w])

\* C2: every (worker, date) of locked_mandatory still has the worker on the
\* date in every schedule the optimizer's steps produce.
C2_LockedMandatoryKept ==
    opt_pc # "idle" =>
        \A x \in locked_mandatory : x[2] \in DatesOf(current_schedule, x[1])

\* C3: when the schedule given to optimize_schedule has no worker with two
\* assignments 7 or 14 days apart, the schedule it returns has none either.
C3_No7_14PatternIntroduced ==
    (opt_pc = "returned" /\ ~ HasPattern7_14(opt_input.schedule))
        => ~ HasPattern7_14(result.schedule)

\* C4: when no two incompatible workers share a date in the schedule given to
\* the optimizer, none do in any schedule its redistributions produce.
C4_NoIncompatibilityIntroduced ==
    (opt_pc # "idle" /\ ~ HasIncompatibility(opt_input.schedule))
        => ~ HasIncompatibility(current_schedule)

\* C5: when every worker's assignments are at least gap_between_shifts days
\* apart in the schedule given to the optimizer, they are in every schedule
\* its redistributions produce (_count_violations stays at zero).
C5_GapPreserved ==
    (opt_pc # "idle" /\ GapViolations(opt_input.schedule) = 0)
        => GapViolations(current_schedule) = 0

\* C6: in the positional grid no worker holds two posts of one date after
\* any sequence of general and weekend redistributions.
C6_OnePostPerWorkerAndDate ==
    opt_pc # "idle" =>
        \A w \in Workers, d \in Dates :
            Cardinality({p \in 1..PostsOn(d) :
                current_schedule[d][p] \in {w, WorkerName(w)}}) <= 1

\* C7: when every worker has at most round(target_shifts * 1.12) assignments
\* in the schedule given to the optimizer, every worker has after each
\* optimizer iteration.
C7_MaxShiftsPreserved ==
    (opt_pc # "idle" /\ WithinMaxShifts(opt_input.schedule))
        => WithinMaxShifts(current_schedule)

\* The number of workers the validator reports outside the tolerance on
\* schedule sched, general and weekend, for the inputs of the call.
TotalViolations(sched) ==
    Len(create_validation_report(sched, opt_input).general_shift_violations)
        + Len(create_validation_report(sched, opt_input).weekend_shift_violations)

\* C20: optimize_schedule returns success = true if and only if the schedule
\* it returns has zero general and zero weekend tolerance violations; when it
\* returns success = false, the returned schedule is one with the fewest
\* total violations among all schedules validated during the call and
\* total_violations is that schedule's count.
C20_SuccessIffNoViolationsElseBest ==
    opt_pc = "returned"
        => /\ result.success <=> TotalViolations(result.schedule) = 0
           /\ ~ result.success =>
                  /\ result.schedule \in validated_schedules
                  /\ result.total_violations = TotalViolations(result.schedule)
                  /\ \A sched \in validated_schedules :
                         result.total_violations <= TotalViolations(sched)

\* ------------------------------------------------- claims on SchedulerCore
\* The successful attempts recorded in attempts_results.
successful_attempts == SelectSeq(attempts_results, LAMBDA r : r.success)

\* C12: if at least one initial-distribution attempt succeeds, then after
\* _multiple_initial_distribution_attempts the scheduler's grid and counters
\* are those produced by a successful attempt whose overall score is maximal
\* among all successful attempts, for any score values.
C12_BestScoringAttemptRetained ==
    (last_op = "apply_best_attempt" /\ successful_attempts # <<>>)
        => \E i \in 1..Len(successful_attempts) :
               /\ AttemptState = successful_attempts[i].state
               /\ \A j \in 1..Len(successful_attempts) :
                      successful_attempts[j].score <= successful_attempts[i].score

\* C13: among the initial-distribution attempts that tie on the highest
\* overall score, the retained attempt is the one with the fewest empty
\* cells, and among those the one with the lowest workload imbalance.
C13_TiesBrokenByEmptyThenImbalance ==
    (last_op = "apply_best_attempt" /\ attempts_returned)
        => \A j \in 1..Len(attempts_results) :
               (/\ attempts_results[j].success
                /\ attempts_results[j].score = attempts_results[best_attempt].score)
                   => \/ attempts_results[best_attempt].empty_shifts
                             < attempts_results[j].empty_shifts
                      \/ /\ attempts_results[best_attempt].empty_shifts
                                = attempts_results[j].empty_shifts
                         /\ attempts_results[best_attempt].workload_imbalance
                                <= attempts_results[j].workload_imbalance

\* C14: at the start of every initial-distribution attempt every
\* ScheduleState structure equals its value at the end of the mandatory
\* phase.
C14_AttemptStartsFromMandatoryState ==
    last_op = "start_attempt" => StateValue = mandatory_state

\* C15: for every value of max_improvement_loops passed to
\* orchestrate_schedule_generation, the improvement loop executes at most
\* max_improvement_loops iterations.
C15_LoopBoundedByArgument ==
    core_pc \in {"improving", "finalization"}
        => improvement_loop_count <= loops_argument

\* A dead-end check leaves a trace in the BacktrackingManager: detect_dead_end
\* either counts a call without improvement or records the score, and a
\* rollback is appended to rollback_history.
DeadEndCheckPerformed ==
    \/ iterations_without_improvement > 0
    \/ last_score # NegInf
    \/ rollback_history # <<>>

\* C16: in every iteration of the improvement loop, after the selected
\* primitives have run and the metrics have been recorded, a dead-end
\* (backtracking) check is performed before the next iteration starts (and a
\* detected dead-end leads to a rollback to a stored checkpoint).
C16_DeadEndCheckedEveryIteration ==
    (last_op = "improvement_iteration" /\ improvement_loop_count >= 2)
        => DeadEndCheckPerformed

\* C17: if any worker is outside the tolerance (general or weekend) when
\* SchedulerCore reaches tolerance optimization, the IterativeOptimizer's
\* redistribution is executed on the current schedule before
\* orchestrate_schedule_generation returns.
C17_OptimizerRunsOnViolations ==
    (core_pc = "returned" /\ tolerance_violations_found > 0) => opt_pc # "idle"

\* C18: the finalization strict-balance loop ends only after three
\* consecutive iterations in which none of balance_workloads,
\* adjust_last_post_distribution and balance_weekday_distribution reported a
\* change, or when the iteration cap (50) is reached.
C18_StrictLoopNeedsThreeQuietPasses ==
    (last_op = "strict_balance_iteration" /\ core_pc = "final_schedule")
        => (no_change_streak >= 3 \/ strict_iterations = max_final_balance_loops)

\* C19: orchestrate_schedule_generation raises SchedulerError only when the
\* mandatory phase fails; a failure or lack of improvement in any other phase
\* (here: finalization) never aborts the run, the call returns True.
C19_OnlyMandatoryFailureIsFatal ==
    core_pc \in {"raised", "returned"} => orchestrate_result = "True"

\* The two workers of the last check_transfer_validity call, with what
\* _count_worker_shifts and workers_data give for them.
TransferFrom ==
    [assigned |-> balance_assigned[transfer_check.from_worker_id],
     target |-> balance_targets[transfer_check.from_worker_id]]

TransferTo ==
    [assigned |-> balance_assigned[transfer_check.to_worker_id],
     target |-> balance_targets[transfer_check.to_worker_id]]

\* C23: when check_transfer_validity(from, to) returns valid, either neither
\* worker's absolute percentage deviation is greater after moving one shift
\* than before, or one worker's deviation is strictly smaller after the move and
\* the other worker's deviation after the move is at most 12%; for every
\* target and count, a source with no shift or with target 0 included.
C23_ValidTransferImprovesBalance ==
    (balance_pc = "checked" /\ transfer_check.valid) =>
        LET from_before == AbsDeviation(TransferFrom.assigned, TransferFrom.target)
            from_after == AbsDeviation(TransferFrom.assigned - 1, TransferFrom.target)
            to_before == AbsDeviation(TransferTo.assigned, TransferTo.target)
            to_after == AbsDeviation(TransferTo.assigned + 1, TransferTo.target)
        IN  \/ /\ ~ DeviationLess(from_before, from_after)
               /\ ~ DeviationLess(to_before, to_after)
            \/ /\ DeviationLess(from_after, from_before)
               /\ to_after[1] <= 12 * to_after[2]
            \/ /\ DeviationLess(to_after, to_before)
               /\ from_after[1] <= 12 * from_after[2]

\* A transfer from a source of target 0 was found valid.
C23_Witness ==
    /\ balance_pc = "checked"
    /\ transfer_check.valid
    /\ TransferFrom.target = 0
    /\ TransferTo.assigned < TransferTo.target

\* C24: check_transfer_validity accepts every transfer from a worker strictly
\* above its target to a worker strictly below its target, and rejects every
\* transfer from a worker at or below its positive target to a worker at or
\* above its positive target.
C24_TransferFollowsTargets ==
    (/\ balance_pc = "checked"
     /\ transfer_check.from_worker_id \in BalanceWorkers
     /\ transfer_check.to_worker_id \in BalanceWorkers) =>
        /\ (/\ TransferFrom.assigned > TransferFrom.target
            /\ TransferTo.assigned < TransferTo.target) => transfer_check.valid
        /\ (/\ TransferFrom.target > 0
            /\ TransferTo.target > 0
            /\ TransferFrom.assigned <= TransferFrom.target
            /\ TransferTo.assigned >= TransferTo.target) => ~ transfer_check.valid

\* A transfer from a worker far above its target to a worker below its
\* target was accepted.
C24_Witness ==
    /\ balance_pc = "checked"
    /\ transfer_check.valid
    /\ TransferFrom.assigned > TransferFrom.target + 2
    /\ TransferFrom.target > 0
    /\ TransferTo.assigned < TransferTo.target

\* The tier the absolute percentage deviation of a worker belongs to.
ExpectedTier(assigned, target) ==
    LET d == 100 * Abs(assigned - target)
    IN  IF d <= 8 * target THEN "within_tolerance"
        ELSE IF d <= 10 * target THEN "within_emergency"
        ELSE IF d <= 15 * target THEN "critical"
        ELSE "extreme"

\* C25: validate_schedule_balance puts every worker of target_shifts > 0 in
\* exactly one tier, the one of its absolute percentage deviation (<= 8
\* within_tolerance, (8, 10] within_emergency, (10, 15] critical, > 15
\* extreme); is_balanced holds exactly when the critical and extreme tiers are
\* empty; with every worker on target the schedule is balanced, with a worker
\* 50% off target it is not.
C25_TiersAndBalance ==
    balance_pc = "validated" =>
        LET in_tier(w, tier) == w \in Range(balance_report.violations[tier])
            rated == {w \in BalanceWorkers : balance_targets[w] > 0}
        IN  /\ \A w \in rated : \A tier \in Tiers :
                   in_tier(w, tier) <=>
                       tier = ExpectedTier(balance_assigned[w], balance_targets[w])
            /\ \A tier \in Tiers :
                   \A i, j \in 1..Len(balance_report.violations[tier]) :
                       balance_report.violations[tier][i]
                           = balance_report.violations[tier][j] => i = j
            /\ balance_report.is_balanced <=>
                   (/\ balance_report.violations["critical"] = <<>>
                    /\ balance_report.violations["extreme"] = <<>>)
            /\ (\A w \in rated : balance_assigned[w] = balance_targets[w])
                   => balance_report.is_balanced
            /\ (\E w \in rated :
                   2 * Abs(balance_assigned[w] - balance_targets[w])
                       = balance_targets[w])
                   => ~ balance_report.is_balanced

\* A schedule was validated with one worker exactly at the emergency limit
\* and the other in the critical tier.
C25_Witness ==
    /\ balance_pc = "validated"
    /\ ~ balance_report.is_balanced
    /\ \E w \in BalanceWorkers :
           /\ balance_targets[w] > 0
           /\ 100 * Abs(balance_assigned[w] - balance_targets[w])
                  = 10 * balance_targets[w]
           /\ w \in Range(balance_report.violations["within_emergency"])
    /\ balance_report.violations["critical"] # <<>>

\* current_score is at least 5% better than last_checkpoint_score.
AtLeastFivePercentBetter(current_score, last_checkpoint_score) ==
    IF last_checkpoint_score = 0 THEN current_score > 0
    ELSE 100 * (current_score - last_checkpoint_score)
             >= 5 * Abs(last_checkpoint_score)

\* C26: should_create_checkpoint returns true in the phases 'mandatory' and
\* 'finalization'; in the phase 'improvement' it returns true exactly when the
\* iteration is a multiple of 10 or the current score is at least 5% better
\* than the score of the most recent checkpoint, whatever the sign of the
\* scores.
C26_CheckpointDecision ==
    last_op = "should_create_checkpoint" =>
        /\ should_create_result.phase \in {"mandatory", "finalization"}
               => should_create_result.returned
        /\ should_create_result.phase = "improvement" =>
               (should_create_result.returned <=>
                    \/ should_create_result.iteration % 10 = 0
                    \/ /\ checkpoints # <<>>
                       /\ AtLeastFivePercentBetter(
                              should_create_result.current_score,
                              checkpoints[Len(checkpoints)].score))

\* The ids of the stored checkpoints.
StoredIds == [i \in 1..Len(checkpoints) |-> checkpoints[i].checkpoint_id]

\* C28: once more checkpoints have been created than max_checkpoints, the
\* stored list is the first checkpoint created followed by the
\* max_checkpoints - 1 most recently created ones in creation order: no
\* checkpoint is stored twice and the first one is never evicted.
C28_FirstThenMostRecent ==
    checkpoint_counter > max_checkpoints =>
        StoredIds = <<1>> \o [i \in 1..(max_checkpoints - 1) |->
                                 checkpoint_counter - (max_checkpoints - 1) + i]

\* The last three entries of s are equal.
LastThreeEqual(s) ==
    /\ Len(s) >= 3
    /\ s[Len(s)] = s[Len(s) - 1]
    /\ s[Len(s) - 1] = s[Len(s) - 2]

\* C21: within one optimize_schedule call the loop does not go on after the
\* third consecutive iteration with the same total violation count, and it
\* never makes more than max_iterations iterations.
C21_LoopStopsOnPlateauOrCap ==
    /\ Len(call_counts) <= max_iterations
    /\ opt_pc = "running" =>
           /\ Len(call_counts) < max_iterations
           /\ ~ LastThreeEqual(call_counts)

\* A call stopped after three iterations of equal counts although
\* max_iterations allowed a fourth.
C21_Witness ==
    /\ opt_pc = "returned"
    /\ ~ result.success
    /\ Len(call_counts) = 3
    /\ LastThreeEqual(call_counts)
    /\ max_iterations > 3

\* C27: when the tolerance validator raises while a schedule is validated
\* inside optimize_schedule, the call does not return success = true with
\* total_violations = 0, and validator.schedule is after the call the object
\* it was before.
C27_ValidationFailureIsNoSuccess ==
    opt_pc = "returned" =>
        /\ (result.success /\ result.total_violations = 0) => ~ validator_raised
        /\ validator_schedule = "scheduler.schedule"

\* Grids g and h have the same dates, the same number of posts on each date
\* and the same empty cells.
SameShape(g, h) ==
    /\ DOMAIN g = DOMAIN h
    /\ \A d \in DOMAIN g :
           /\ Len(g[d]) = Len(h[d])
           /\ \A p \in 1..Len(g[d]) : g[d][p] = None <=> h[d][p] = None

FilledCells(g) == Cardinality({c \in Cells : g[c[1]][c[2]] # None})

\* C29: the redistribution passes only replace the occupant of a filled cell:
\* the schedule a call works on, its best schedule and the schedule it returns
\* have the empty cells, the posts per date and the number of filled cells of
\* the schedule the call was given, and the caller's schedule is not changed.
C29_RedistributionKeepsShape ==
    opt_pc \in {"running", "returned"} =>
        /\ SameShape(current_schedule, opt_input.schedule)
        /\ SameShape(best_schedule, opt_input.schedule)
        /\ FilledCells(current_schedule) = FilledCells(opt_input.schedule)
        /\ opt_pc = "returned" => SameShape(result.schedule, opt_input.schedule)
        /\ caller_schedule = opt_input.schedule

\* A redistribution changed a schedule that has an empty cell.
C29_Witness ==
    /\ opt_pc = "running"
    /\ current_schedule # opt_input.schedule
    /\ count_empty_shifts(opt_input.schedule) > 0

\* C30: a second optimize_schedule call on the same instance with the same
\* arguments runs as many iterations as the first and returns the same
\* result.
C30_SecondCallRepeatsFirst ==
    (/\ calls = 2
     /\ opt_pc = "returned"
     /\ ~ validator_raised
     /\ ~ first_call.validator_raised) =>
        /\ Len(call_counts) = first_call.iterations
        /\ result = first_call.result

\* The worker order of attempt n as the strategy's seed and the restored
\* counts give it, the generator's earlier state playing no part.
ExpectedWorkersList(n) ==
    LET strategy == select_distribution_strategy(n)
        seed == IF strategy.seed = <<>> THEN 0 ELSE strategy.seed[1]
    IN get_ordered_workers_list(strategy.worker_order, seed,
                                mandatory_backup.worker_shift_counts).workers

\* The grid after k assignments of the ordered fill from grid g.
RECURSIVE FillSteps(_, _, _, _)
FillSteps(g, asg, order, k) ==
    LET choice == NextFill(g, asg, order)
    IN IF k = 0 \/ choice = <<>> THEN g
       ELSE FillSteps([g EXCEPT ![choice[1][1]][choice[1][2]] = choice[2]],
                      [asg EXCEPT ![choice[2]] = @ \cup {choice[1][1]}],
                      order, k - 1)

\* The grid attempt n holds once it has filled as many cells as grid g has
\* more than the mandatory backup.
ExpectedGrid(n, g) ==
    FillSteps(mandatory_backup.schedule, mandatory_backup.worker_assignments,
              ExpectedWorkersList(n),
              FilledCells(g) - FilledCells(mandatory_backup.schedule))

====
